---- MODULE Spec2Model ----
(***************************************************************************)
(* State-machine model of the optimisation core of SharpETF:               *)
(*   - PortfolioOptimizer / PortfolioOptimizerScipy.maximize_sharpe_ratio  *)
(*     with its validation, primary solve and fallback chain,              *)
(*   - calculate_efficient_frontier,                                       *)
(*   - the four strategies of MultiObjectiveOptimizer.                     *)
(*                                                                         *)
(* Numbers.  Returns are integers in units of 1% (risk-free rate 0.02 is   *)
(* RiskFree = 2); covariances are integers.  A weight vector is a record   *)
(* [num, den, nan]: weight i is num[i]/den, and nan marks a vector that    *)
(* holds a NaN entry.  A Sharpe ratio e/sqrt(v) is kept as the record      *)
(* [k, e, v] with k in {"nan","pinf","ninf","fin"}, following IEEE-754     *)
(* as numpy computes it (x/0 is +-inf, 0/0 and sqrt(negative) are NaN,     *)
(* every comparison with NaN is false).                                    *)
(*                                                                         *)
(* The numerical solvers (scipy.optimize.minimize, cvxpy) are library      *)
(* code: a solve is a nondeterministic choice among the outcomes the       *)
(* library can produce (a status other than success, an exception, or a    *)
(* feasible point on a grid of weights with denominator GridDen).          *)
(***************************************************************************)
EXTENDS Integers, Sequences, FiniteSets, TLC

\* ------------------------------------------------------------------ bounds
MaxN == 2
MaxMu == 3
MaxVar == 1
GridDen == 2
MaxPoints == 3
MaxAssets == 3

\* risk_free_rate default 0.02, in units of 1%
RiskFree == 2

\* max_volatility default 0.15, in units of 1%
MaxVolatility == 15

\* ------------------------------------------------------- numeric helpers
RECURSIVE SumTo(_, _)
SumTo(f, k) == IF k = 0 THEN 0 ELSE f[k] + SumTo(f, k - 1)

\* np.sum / np.dot over vectors held as sequences
SumSeq(s) == SumTo(s, Len(s))
Dot(a, b) == SumTo([i \in 1..Len(a) |-> a[i] * b[i]], Len(a))

\* cov @ x for an n x n matrix m
MatVec(m, x, n) == [i \in 1..n |-> SumTo([j \in 1..n |-> m[i][j] * x[j]], n)]

\* x.T @ cov @ x
QuadForm(x, m, n) == Dot(x, MatVec(m, x, n))

Sign(x) == IF x > 0 THEN 1 ELSE IF x < 0 THEN 0 - 1 ELSE 0

\* the matrix without row i and column j
Minor(m, k, i, j) ==
    [r \in 1..(k - 1) |->
        [c \in 1..(k - 1) |->
            m[IF r < i THEN r ELSE r + 1][IF c < j THEN c ELSE c + 1]]]

RECURSIVE Det(_, _)
Det(m, k) ==
    IF k = 0 THEN 1
    ELSE IF k = 1 THEN m[1][1]
    ELSE SumTo([j \in 1..k |->
                  (IF j % 2 = 1 THEN 1 ELSE 0 - 1) * m[1][j]
                      * Det(Minor(m, k, 1, j), k - 1)], k)

\* adjugate: inv(m) = Adjugate(m) / Det(m)
Adjugate(m, n) ==
    [i \in 1..n |->
        [j \in 1..n |->
            (IF (i + j) % 2 = 0 THEN 1 ELSE 0 - 1) * Det(Minor(m, n, j, i), n - 1)]]

\* ------------------------------------------------------------ IEEE values
NaN == [k |-> "nan", e |-> 0, v |-> 0]

\* (portfolio_return - risk_free_rate) / portfolio_vol for weights w
SharpeOf(w, mu, cov) ==
    IF w.nan THEN NaN
    ELSE LET e == Dot(w.num, mu) - RiskFree * w.den
             v == QuadForm(w.num, cov.m, Len(mu))
         IN  IF v < 0 THEN NaN
             ELSE IF v = 0
                  THEN IF e > 0 THEN [k |-> "pinf", e |-> 0, v |-> 0]
                       ELSE IF e < 0 THEN [k |-> "ninf", e |-> 0, v |-> 0]
                       ELSE NaN
             ELSE [k |-> "fin", e |-> e, v |-> v]

IsNaN(s) == s.k = "nan"

\* a > b on finite values e/sqrt(v), by signs and squares
FinGt(a, b) ==
    IF a.e >= 0 /\ b.e < 0 THEN TRUE
    ELSE IF a.e < 0 /\ b.e >= 0 THEN FALSE
    ELSE IF a.e >= 0 THEN a.e * a.e * b.v > b.e * b.e * a.v
    ELSE a.e * a.e * b.v < b.e * b.e * a.v

\* the float comparison a > b
Gt(a, b) ==
    IF IsNaN(a) \/ IsNaN(b) THEN FALSE
    ELSE IF a.k = "pinf" THEN b.k # "pinf"
    ELSE IF a.k = "ninf" THEN FALSE
    ELSE IF b.k = "pinf" THEN FALSE
    ELSE IF b.k = "ninf" THEN TRUE
    ELSE FinGt(a, b)

\* ------------------------------------------------- weight vectors, inputs
Weights(num, den) == [num |-> num, den |-> den, nan |-> FALSE]
NaNWeights(n) == [num |-> [i \in 1..n |-> 0], den |-> 1, nan |-> TRUE]

\* np.ones(n) / n
EqualWeights(n) == Weights([i \in 1..n |-> 1], n)

\* the same vector of fractions
SameWeights(a, b) ==
    /\ a.nan = b.nan
    /\ Len(a.num) = Len(b.num)
    /\ \A i \in 1..Len(a.num) : a.num[i] * b.den = b.num[i] * a.den

\* |sum(w) - 1| < 1e-6 and w_i >= -1e-6, on exact fractions
ValidWeights(w, n) ==
    /\ ~w.nan
    /\ Len(w.num) = n
    /\ w.den > 0
    /\ \A i \in 1..n : w.num[i] >= 0
    /\ SumSeq(w.num) = w.den

\* feasible points of the solvers: w >= 0, sum(w) = 1, on the grid k/GridDen
Grid(n) == {g \in [1..n -> 0..GridDen] : SumSeq(g) = GridDen}
GridWeights(n) == {Weights(g, GridDen) : g \in Grid(n)}

MuVals == (RiskFree - 1)..MaxMu
OffDiagVals == {0 - 1, 0, 1}

\* annual_mean: a vector of 0..MaxN annualised returns
MuInputs == UNION {[1..n -> MuVals] : n \in 0..MaxN}

\* a square matrix with variances d, covariance c above the diagonal and
\* c + a below it (a # 0 makes it non-symmetric)
SquareCov(n, d, c, a) ==
    [rows |-> n, cols |-> n,
     m |-> [i \in 1..n |-> [j \in 1..n |->
              IF i = j THEN d[i] ELSE IF i < j THEN c ELSE c + a]]]

\* a rows x cols table of ones, rows # cols
FlatCov(r, c) ==
    [rows |-> r, cols |-> c, m |-> [i \in 1..r |-> [j \in 1..c |-> 1]]]

\* cov_matrix: any shape up to MaxN x MaxN
CovInputs ==
    {SquareCov(n, d, c, a) :
        n \in 0..MaxN, d \in [1..MaxN -> 0..MaxVar], c \in OffDiagVals, a \in {0, 1}}
    \cup {FlatCov(r, c) : r \in 0..MaxN, c \in 0..MaxN}

Symmetric(cov) ==
    \A i \in 1..cov.rows : \A j \in 1..cov.cols : cov.m[i][j] = cov.m[j][i]

RECURSIVE SortedSeq(_)
SortedSeq(S) ==
    IF S = {} THEN <<>>
    ELSE LET x == CHOOSE x \in S : \A y \in S : x <= y
         IN  <<x>> \o SortedSeq(S \ {x})

\* cov.iloc[idx, idx]
SubMatrix(m, idx) ==
    [r \in 1..Len(idx) |-> [c \in 1..Len(idx) |-> m[idx[r]][idx[c]]]]

\* symmetric with every principal minor >= 0
PSD(cov) ==
    /\ cov.rows = cov.cols
    /\ Symmetric(cov)
    /\ \A S \in SUBSET (1..cov.rows) :
          Det(SubMatrix(cov.m, SortedSeq(S)), Cardinality(S)) >= 0

\* x.T @ cov @ x > 0 for every x # 0 (Sylvester on cov + cov.T)
PositiveDefinite(cov) ==
    /\ cov.rows = cov.cols
    /\ \A k \in 1..cov.rows :
          Det([i \in 1..k |-> [j \in 1..k |-> cov.m[i][j] + cov.m[j][i]]], k) > 0

\* ------------------------------------------------- the solvers (library)
Ok(w) == [status |-> "ok", w |-> w]
Fail == [status |-> "fail", w |-> NaNWeights(0)]
Raise == [status |-> "raise", w |-> NaNWeights(0)]

\* cvxpy: minimise w' cov w  s.t. sum(w) = 1, w >= 0, mu' w >= risk_free_rate
CvxpyFeasible(mu, cov) ==
    {w \in GridWeights(Len(mu)) : Dot(w.num, mu) >= RiskFree * w.den}

CvxpyOptima(mu, cov) ==
    {w \in CvxpyFeasible(mu, cov) :
        \A u \in CvxpyFeasible(mu, cov) :
            QuadForm(w.num, cov.m, Len(mu)) <= QuadForm(u.num, cov.m, Len(mu))}

\* scipy SLSQP: maximise the Sharpe ratio s.t. sum(w) = 1, 0 <= w <= 1
ScipyOptima(mu, cov) ==
    {w \in GridWeights(Len(mu)) :
        \A u \in GridWeights(Len(mu)) :
            ~Gt(SharpeOf(u, mu, cov), SharpeOf(w, mu, cov))}

\* the objective is finite and the maximum is the global one
ScipyRegular(mu, cov) ==
    /\ PositiveDefinite(cov)
    /\ \E i \in 1..Len(mu) : mu[i] > RiskFree

\* _maximize_sharpe_cvxpy up to the status test: quad_form rejects a matrix
\* that is not symmetric PSD; a status other than optimal is a failure
CvxpySolve(mu, cov) ==
    IF ~PSD(cov) THEN {Raise}
    ELSE {Fail} \cup {Ok(w) : w \in CvxpyOptima(mu, cov)}

\* minimize(negative_sharpe_ratio, ...) up to the success test: np.dot raises
\* on a shape mismatch; where the objective is NaN or infinite somewhere the
\* point SLSQP stops at is not determined
ScipySolve(mu, cov) ==
    IF cov.cols # Len(mu) THEN {Raise}
    ELSE IF ScipyRegular(mu, cov)
         THEN {Fail} \cup {Ok(w) : w \in ScipyOptima(mu, cov)}
    ELSE {Fail} \cup {Ok(w) : w \in GridWeights(Len(mu))}

PrimarySolve(b, mu, cov) ==
    IF b = "cvxpy" THEN CvxpySolve(mu, cov) ELSE ScipySolve(mu, cov)

\* ------------------------------------------- maximize_sharpe_ratio: pieces
\* np.allclose(cov.values, cov.values.T) broadcasts the two shapes
Broadcastable(cov) == cov.rows = cov.cols \/ cov.rows = 1 \/ cov.cols = 1

AllCloseTranspose(cov) ==
    IF cov.rows = cov.cols THEN Symmetric(cov)
    ELSE IF cov.rows = 1
         THEN \A i \in 1..cov.cols : \A j \in 1..cov.cols : cov.m[1][i] = cov.m[1][j]
    ELSE \A i \in 1..cov.rows : \A j \in 1..cov.rows : cov.m[i][1] = cov.m[j][1]

Accept(warn) == [raises |-> FALSE, why |-> "none", warnings |-> warn]
Reject(why) == [raises |-> TRUE, why |-> why, warnings |-> {}]

ValidateInputsNoDimensionCheck(mu, cov) ==
    IF Len(mu) = 0 THEN Reject("empty_mean")
    ELSE IF cov.rows = 0 \/ cov.cols = 0 THEN Reject("empty_cov")
    ELSE Accept({})

ValidateInputsRejectAsymmetric(mu, cov) ==
    IF Len(mu) = 0 THEN Reject("empty_mean")
    ELSE IF cov.rows = 0 \/ cov.cols = 0 THEN Reject("empty_cov")
    ELSE IF Len(mu) # cov.rows THEN Reject("dimension_mismatch")
    ELSE IF ~Broadcastable(cov) THEN Reject("allclose_shapes")
    ELSE IF ~AllCloseTranspose(cov) THEN Reject("asymmetric")
    ELSE Accept({})

\* _validate_optimization_inputs (the same code in both classes)
ValidateInputs(mu, cov) ==
    IF Len(mu) = 0 THEN Reject("empty_mean")
    ELSE IF cov.rows = 0 \/ cov.cols = 0 THEN Reject("empty_cov")
    ELSE IF Len(mu) # cov.rows THEN Reject("dimension_mismatch")
    ELSE IF ~Broadcastable(cov) THEN Reject("allclose_shapes")
    ELSE Accept((IF \E i \in 1..Len(mu) : mu[i] < 0 - 100 THEN {"low_return"} ELSE {})
                \cup (IF ~AllCloseTranspose(cov) THEN {"asymmetric"} ELSE {}))

\* _validate_optimization_result: raises on missing weights or a NaN Sharpe
\* ratio (weights are never None on the paths that call it)
ResultRaises(w, sh) == IsNaN(sh)

TangencyWeightsNotRenormalised(mu, cov) ==
    LET n == Len(mu)
        ex == [i \in 1..n |-> mu[i] - RiskFree]
        a == MatVec(Adjugate(cov.m, n), ex, n)
        S == SumSeq(a)
        clipped == [i \in 1..n |-> IF a[i] * Sign(S) < 0 THEN 0 ELSE a[i] * Sign(S)]
    IN  IF S # 0 THEN Weights(clipped, S * Sign(S))
        ELSE IF \E i \in 1..n : a[i] = 0 THEN EqualWeights(n)
        ELSE NaNWeights(n)

\* the analytic candidate of _solve_with_alternative_method:
\*   w = inv(cov) @ (mu - rf); w = w / sum(w); w[w < 0] = 0;
\*   w = w / sum(w) if sum(w) > 0 else equal_weights
\* inv(cov) = adj / det, so w / sum(w) = a / S with a = adj @ (mu - rf), S = sum(a)
TangencyWeights(mu, cov) ==
    LET n == Len(mu)
        ex == [i \in 1..n |-> mu[i] - RiskFree]
        a == MatVec(Adjugate(cov.m, n), ex, n)
        S == SumSeq(a)
        clipped == [i \in 1..n |-> IF a[i] * Sign(S) < 0 THEN 0 ELSE a[i] * Sign(S)]
    IN  IF S # 0
        THEN IF SumSeq(clipped) > 0 THEN Weights(clipped, SumSeq(clipped))
             ELSE EqualWeights(n)
        \* S = 0: a_i / 0 is +-inf or NaN; a NaN entry makes sum(w) > 0 false,
        \* an inf entry makes the second division inf / inf = NaN
        ELSE IF \E i \in 1..n : a[i] = 0 THEN EqualWeights(n)
        ELSE NaNWeights(n)

Candidate(w, mu, cov) == [made |-> TRUE, w |-> w, s |-> SharpeOf(w, mu, cov)]
NoCandidate == [made |-> FALSE, w |-> NaNWeights(0), s |-> NaN]

PickFallbackWorse(tan, eq) == IF Gt(tan.s, eq.s) THEN "equal" ELSE "tangency"

\* "if sharpe_uncon > sharpe_equal: return w_unconstrained ... else equal"
PickFallback(tan, eq) == IF Gt(tan.s, eq.s) THEN "tangency" ELSE "equal"

NoResult == [weights |-> NaNWeights(0), sharpe |-> NaN]
ResultOf(c) == [weights |-> c.w, sharpe |-> c.s]

\* ------------------------------------------ calculate_efficient_frontier
\* smallest / largest entry of a non-empty vector (annual_mean.min(), .max())
MinOf(v) == CHOOSE x \in {v[i] : i \in 1..Len(v)} : \A i \in 1..Len(v) : x <= v[i]
MaxOf(v) == CHOOSE x \in {v[i] : i \in 1..Len(v)} : \A i \in 1..Len(v) : x >= v[i]

\* np.linspace(min_return, max_return, num_points)[j - 1], as the fraction
\* num / den with den = num_points - 1 (num_points = 1 gives [min_return])
TargetReturn(v, k, j) ==
    IF k = 1 THEN [num |-> MinOf(v), den |-> 1]
    ELSE [num |-> MinOf(v) * (k - 1) + (j - 1) * (MaxOf(v) - MinOf(v)), den |-> k - 1]

\* feasible points of one frontier problem: sum(w) = 1, w >= 0, mu' w = target
FrontierFeasible(v, t) ==
    {w \in GridWeights(Len(v)) : Dot(w.num, v) * t.den = t.num * w.den}

\* outcomes of one target: risk is the variance w' cov w of the solution
\* (the code returns its square root)
PointOk(r) == [status |-> "ok", risk |-> r]
PointNone == [status |-> "none", risk |-> 0]
PointRaise == [status |-> "raise", risk |-> 0]

\* _calculate_efficient_point_cvxpy / _calculate_efficient_point_scipy and the
\* loop body of PortfolioOptimizerScipy.calculate_efficient_frontier: the
\* solve raises (shape mismatch; cvxpy: matrix not symmetric PSD), reports a
\* status other than success (None, None), or returns the minimum-variance
\* point of the target
FrontierSolve(b, v, c, t) ==
    IF c.cols # Len(v) \/ c.rows # Len(v) THEN {PointRaise}
    ELSE IF b = "cvxpy" /\ ~PSD(c) THEN {PointRaise}
    ELSE {PointNone} \cup
         {PointOk(QuadForm(w.num, c.m, Len(v))) :
             w \in {x \in FrontierFeasible(v, t) :
                      \A u \in FrontierFeasible(v, t) :
                          QuadForm(x.num, c.m, Len(v)) <= QuadForm(u.num, c.m, Len(v))}}

FrontierAppendAlways(lists, o, t) ==
    [risks |-> IF o.status = "ok" THEN Append(lists.risks, o.risk) ELSE lists.risks,
     returns |-> Append(lists.returns, t)]

\* "if risk is not None: risks.append(risk); returns_list.append(return_val)",
\* "except Exception: continue"
FrontierAppend(lists, o, t) ==
    IF o.status = "ok"
    THEN [risks |-> Append(lists.risks, o.risk), returns |-> Append(lists.returns, t)]
    ELSE lists

\* ---------------------------------------------- MultiObjectiveOptimizer
RECURSIVE Gcd(_, _)
Gcd(a, b) == IF b = 0 THEN a ELSE Gcd(b, a % b)
Lcm(a, b) == (a * b) \div Gcd(a, b)

RECURSIVE LcmDens(_, _)
LcmDens(fr, k) == IF k = 0 THEN 1 ELSE Lcm(fr[k].den, LcmDens(fr, k - 1))

\* a vector of fractions [num, den] as one weight vector over a common denominator
FracsToWeights(fr) ==
    LET L == LcmDens(fr, Len(fr))
    IN  Weights([i \in 1..Len(fr) |-> fr[i].num * (L \div fr[i].den)], L)

\* _calculate_portfolio_metrics: return w'mu, variance w'Cov w (volatility is
\* its root), Sharpe ratio, and the parts of the diversification ratio
\* sum(w_i sqrt(Cov_ii)) / sqrt(w'Cov w)
MetricsOf(w, v, c) ==
    [portfolio_return |-> [num |-> Dot(w.num, v), den |-> w.den],
     portfolio_variance |-> [num |-> QuadForm(w.num, c.m, Len(v)), den |-> w.den * w.den],
     sharpe_ratio |-> SharpeOf(w, v, c),
     diversification |-> [w |-> w.num, diag |-> [i \in 1..Len(v) |-> c.m[i][i]]]]

NoMetrics == [none |-> TRUE]

FallbackOptimizationZeros(v, c) ==
    [weights |-> Weights([i \in 1..Len(v) |-> 0], 1),
     metrics |-> MetricsOf(Weights([i \in 1..Len(v) |-> 0], 1), v, c)]

\* _fallback_optimization: equal weights and their metrics
FallbackOptimization(v, c) ==
    [weights |-> EqualWeights(Len(v)), metrics |-> MetricsOf(EqualWeights(Len(v)), v, c)]

\* feasible points of the three SLSQP strategies: sum(w) = 1, 0 <= w <= 1 and,
\* for the risk-constrained one, sqrt(w'Cov w) <= max_volatility
MultiFeasible(st, v, c) ==
    {w \in GridWeights(Len(v)) :
        st = "risk_constraint" =>
            QuadForm(w.num, c.m, Len(v)) <= MaxVolatility * MaxVolatility * w.den * w.den}

\* minimize(...) of a strategy: success with a feasible point, a status other
\* than success, or an exception
MultiSolve(st, v, c) == {Fail, Raise} \cup {Ok(w) : w \in MultiFeasible(st, v, c)}

\* minimize(...) of _intra_cluster_risk_parity on a cluster of m instruments
IntraSolve(m) == {Fail, Raise} \cup {Ok(w) : w \in GridWeights(m)}

\* cov_matrix.corr(): Pearson correlation of columns i and j of the table,
\* r = sxy / sqrt(sxx * syy), NaN when a column is constant
PearsonParts(c, i, j) ==
    LET n == c.rows
        x == [k \in 1..n |-> c.m[k][i]]
        y == [k \in 1..n |-> c.m[k][j]]
    IN  [sxy |-> n * Dot(x, y) - SumSeq(x) * SumSeq(y),
         sxx |-> n * Dot(x, x) - SumSeq(x) * SumSeq(x),
         syy |-> n * Dot(y, y) - SumSeq(y) * SumSeq(y)]

\* correlation_matrix.iloc[i, j] > t.num / t.den (false for NaN)
CorrGt(c, i, j, t) ==
    LET p == PearsonParts(c, i, j)
        lhs == p.sxy * t.den
        rhs2 == t.num * t.num * p.sxx * p.syy
    IN  IF p.sxx = 0 \/ p.syy = 0 THEN FALSE
        ELSE IF t.num < 0 THEN lhs >= 0 \/ lhs * lhs < rhs2
        ELSE lhs > 0 /\ lhs * lhs > rhs2

Zero == [num |-> 0, den |-> 1]

\* _should_merge_clusters: max_correlation starts at 0 and takes every larger
\* correlation of a pair; the result is max_correlation > threshold
ShouldMergeClusters(c1, c2, c, t) ==
    \/ t.num < 0
    \/ \E i \in c1 : \E j \in c2 : CorrGt(c, i, j, Zero) /\ CorrGt(c, i, j, t)

\* the pairs (i, j), i < j, the scan of _build_hierarchical_clusters would merge
MergeablePairs(cl, c, t) ==
    {p \in (1..Len(cl)) \X (1..Len(cl)) :
        p[1] < p[2] /\ ShouldMergeClusters(cl[p[1]], cl[p[2]], c, t)}

\* the first such pair in scan order: smallest i, then smallest j
LastPair(P) ==
    CHOOSE p \in P : \A q \in P : q[1] < p[1] \/ (q[1] = p[1] /\ q[2] <= p[2])

FirstPair(P) ==
    CHOOSE p \in P : \A q \in P : p[1] < q[1] \/ (p[1] = q[1] /\ p[2] <= q[2])

\* clusters[i].update(clusters[j]); clusters.pop(j)
MergeClustersKeepBoth(cl, i, j) ==
    [k \in 1..Len(cl) |-> IF k = i THEN cl[i] \cup cl[j] ELSE cl[k]]

MergeClusters(cl, i, j) ==
    [k \in 1..(Len(cl) - 1) |->
        IF k = i THEN cl[i] \cup cl[j]
        ELSE IF k < j THEN cl[k] ELSE cl[k + 1]]

ClusterBudgetWhole(K) == [num |-> 1, den |-> 1]

\* cluster_weights = np.ones(len(clusters)) / len(clusters)
ClusterBudget(K) == [num |-> 1, den |-> K]

IntraClusterWeightsFailZero(o, m) ==
    IF o.status = "ok" THEN o.w ELSE Weights([i \in 1..m |-> 0], 1)

\* "return result.x if result.success else initial_weights"
IntraClusterWeights(o, m) == IF o.status = "ok" THEN o.w ELSE EqualWeights(m)

\* optimal_weights[cluster_indices] = cluster_weights[i] * cluster_weights_internal
\* (cluster_indices = list(cluster), taken in increasing order)
AssignCluster(ow, cluster, budget, inner) ==
    LET idx == SortedSeq(cluster)
        pos(i) == CHOOSE k \in 1..Len(idx) : idx[k] = i
    IN  [i \in 1..Len(ow) |->
            IF i \in cluster
            THEN [num |-> budget.num * inner.num[pos(i)], den |-> budget.den * inner.den]
            ELSE ow[i]]

\* ---------------------------------------------------------------- state
VARIABLES
    cls,           \* "PortfolioOptimizer" | "PortfolioOptimizerScipy"
    backend,       \* self.backend: "cvxpy" | "scipy"
    mu,            \* annual_mean
    cov,           \* cov_matrix
    pc,            \* position in maximize_sharpe_ratio
    stages,        \* the stages entered so far, in order
    warnings,      \* logger.warning calls of the input validation
    err,           \* why the call raised
    primary,       \* outcome of the primary solve: "none", "ok", "fail", "raise", "nan"
    candEqual,     \* the equal-weight candidate of the fallback
    candTangency,  \* the analytic candidate of the fallback
    path,          \* which result was returned: "primary", "tangency", "equal"
    result         \* the returned (weights, sharpe)

sharpeVars == <<cls, backend, mu, cov, pc, stages, warnings, err, primary,
                candEqual, candTangency, path, result>>

VARIABLES
    numPoints,     \* num_points
    fpc,           \* position in calculate_efficient_frontier
    ti,            \* number of targets the loop has processed
    frontier,      \* [risks, returns]: the two lists being built
    outcomes       \* outcome of the solve of each processed target, in order

frontierVars == <<numPoints, fpc, ti, frontier, outcomes>>

VARIABLES
    strategy,      \* which method of MultiObjectiveOptimizer is called
    mpc,           \* position in it
    threshold,     \* correlation_threshold, a fraction [num, den]
    clusters,      \* the list of clusters (sets of instrument indices)
    ci,            \* number of clusters hierarchical_risk_parity has allocated
    optimalWeights,\* optimal_weights of hierarchical_risk_parity, as fractions
    solves,        \* outcome of every solver call made, in order
    mResult        \* the returned (weights, metrics)

multiVars == <<strategy, mpc, threshold, clusters, ci, optimalWeights, solves, mResult>>

VARIABLES
    signals,       \* the signals mapping: name -> [vals, extra]
    spc,           \* position in the signal-enhanced optimizer
    sInputs,       \* the (expected returns, covariance) handed to the solver
    sSolves,       \* outcome of every solver call made, in order
    sExcept,       \* an exception was caught by optimize_with_signals
    sResult        \* the returned (weights, metrics)

signalVars == <<signals, spc, sInputs, sSolves, sExcept, sResult>>

VARIABLES
    rFn,           \* which method of AdvancedRiskManager is called
    rpc,           \* "start" | "returned"
    rReturns,      \* the return series: returns (percent) or daily factors 1 + r
    rConf,         \* confidence_level, a fraction [num, den]
    rOut           \* the value(s) computed by the call

riskVars == <<rFn, rpc, rReturns, rConf, rOut>>

VARIABLES
    callFn,        \* which stand-alone method is called
    callPc,        \* "idle" | "start" | "returned" | "raised"
    callArgs,      \* the arguments of the call
    callOut        \* the value the call returns

callVars == <<callFn, callPc, callArgs, callOut>>

VARIABLES
    cmpPc,         \* position in compare_optimization_methods
    cmpIdx,        \* which of the four methods is attempted next
    cmpReturns,    \* the returns argument: "none" | "table" | "unusable"
    methods,       \* the mapping under construction: method name -> result
    attempted      \* the attempts made, in order, each with its outcome

cmpVars == <<cmpPc, cmpIdx, cmpReturns, methods, attempted>>

VARIABLES
    rng,           \* state of numpy's global random generator
    history        \* the finished calculate_var calls: arguments and value

VARIABLES
    runStep,       \* run_analysis: number of the step to run next
    runState,      \* "idle", "running", "completed" or "exited"
    runDone,       \* the steps that returned, in order
    exitStatus,    \* <<>> or the status handed to sys.exit
    runData        \* what the steps have stored on the optimizer object

runVars == <<runStep, runState, runDone, exitStatus, runData>>

auxVars == <<rng, history, runVars>>

extVars == <<signalVars, riskVars, callVars, cmpVars, auxVars>>

vars == <<sharpeVars, frontierVars, multiVars, extVars>>

NoMultiResult == [weights |-> NaNWeights(0), metrics |-> NoMetrics]

NoSignals == [nm \in {} |-> 0]
NoInputs == [mu |-> <<>>, cov |-> [rows |-> 0, cols |-> 0, m |-> <<>>, scale |-> 1, lifted |-> FALSE]]
NoAnalysis == [present |-> FALSE]
NoSignalResult == [weights |-> NaNWeights(0), of |-> NoInputs, signal_analysis |-> NoAnalysis]

SignalIdle ==
    /\ signals = NoSignals /\ spc = "idle" /\ sInputs = NoInputs
    /\ sSolves = <<>> /\ sExcept = FALSE /\ sResult = NoSignalResult

NoRiskOut == [none |-> TRUE]

RiskIdle ==
    /\ rFn = "none" /\ rpc = "idle" /\ rReturns = <<>> /\ rConf = Zero /\ rOut = NoRiskOut

NoArgs == [none |-> TRUE]

NoOut == [none |-> TRUE]

CallIdle == callFn = "none" /\ callPc = "idle" /\ callArgs = NoArgs /\ callOut = NoOut

NoMethods == [nm \in {} |-> NoMultiResult]

CompareIdle ==
    /\ cmpPc = "idle" /\ cmpIdx = 0 /\ cmpReturns = "none" /\ methods = NoMethods
    /\ attempted = <<>>

NoRunData == [n |-> 0, optimal_weights |-> <<>>, methods |-> {}]

RunIdle ==
    /\ runStep = 0 /\ runState = "idle" /\ runDone = <<>> /\ exitStatus = <<>>
    /\ runData = NoRunData

AuxIdle == rng = 0 /\ history = <<>> /\ RunIdle

ExtIdle == SignalIdle /\ RiskIdle /\ CallIdle /\ CompareIdle /\ AuxIdle

MultiIdle ==
    /\ strategy = "none" /\ mpc = "idle" /\ threshold = Zero /\ clusters = <<>>
    /\ ci = 0 /\ optimalWeights = <<>> /\ solves = <<>> /\ mResult = NoMultiResult

SharpeIdle ==
    /\ pc = "idle" /\ stages = <<>> /\ warnings = {} /\ err = "none"
    /\ primary = "none" /\ candEqual = NoCandidate /\ candTangency = NoCandidate
    /\ path = "none" /\ result = NoResult

FrontierIdle ==
    /\ numPoints = 0 /\ fpc = "idle" /\ ti = 0
    /\ frontier = [risks |-> <<>>, returns |-> <<>>]
    /\ outcomes = <<>>

Impls == {<<"PortfolioOptimizer", "cvxpy">>, <<"PortfolioOptimizer", "scipy">>,
          <<"PortfolioOptimizerScipy", "scipy">>}

SharpeInit ==
    /\ \E im \in Impls : cls = im[1] /\ backend = im[2]
    /\ mu \in MuInputs
    /\ cov \in CovInputs
    /\ pc = "start"
    /\ stages = <<>>
    /\ warnings = {}
    /\ err = "none"
    /\ primary = "none"
    /\ candEqual = NoCandidate
    /\ candTangency = NoCandidate
    /\ path = "none"
    /\ result = NoResult
    /\ FrontierIdle
    /\ MultiIdle
    /\ ExtIdle

\* try: return <solve> / except Exception: return _solve_with_alternative_method:
\* the solution is returned unless the solve failed or raised
PrimaryReturnsAfterFallback(status, rejected) == FALSE

PrimaryReturns(status, rejected) == status = "ok" /\ ~rejected

\* np.linalg.inv(cov) succeeds: a square, non-singular matrix
Invertible(c, n) == c.rows = c.cols /\ c.cols = n /\ Det(c.m, n) # 0

\* self._validate_optimization_inputs(annual_mean, cov_matrix)
Validate ==
    /\ pc = "start"
    /\ LET v == ValidateInputs(mu, cov)
       IN  /\ pc' = IF v.raises THEN "raised" ELSE "primary"
           /\ err' = v.why
           /\ warnings' = v.warnings
    /\ stages' = Append(stages, "validate")
    /\ UNCHANGED <<cls, backend, mu, cov, primary, candEqual, candTangency, path, result, frontierVars, multiVars, extVars>>

\* the try block: the backend's solve, the status test, the Sharpe ratio of the
\* solution and (PortfolioOptimizerScipy only) _validate_optimization_result
Primary ==
    /\ pc = "primary"
    /\ \E o \in PrimarySolve(backend, mu, cov) :
         LET sh == SharpeOf(o.w, mu, cov)
             rejected == cls = "PortfolioOptimizerScipy" /\ ResultRaises(o.w, sh)
         IN  /\ primary' = IF o.status = "ok" /\ rejected THEN "nan" ELSE o.status
             /\ IF PrimaryReturns(o.status, rejected)
                THEN /\ pc' = "returned"
                     /\ path' = "primary"
                     /\ result' = [weights |-> o.w, sharpe |-> sh]
                ELSE /\ pc' = "fallback_equal"
                     /\ UNCHANGED <<path, result>>
    /\ stages' = Append(stages, "primary")
    /\ UNCHANGED <<cls, backend, mu, cov, warnings, err, candEqual, candTangency, frontierVars, multiVars, extVars>>

\* _solve_with_alternative_method, first part: the equal-weight candidate
\* (outside the inner try: a shape error of np.dot leaves the call)
EqualCandidate ==
    /\ pc = "fallback_equal"
    /\ IF cov.cols # Len(mu)
       THEN /\ pc' = "raised"
            /\ err' = "fallback"
            /\ UNCHANGED candEqual
       ELSE /\ pc' = "fallback_tangency"
            /\ candEqual' = Candidate(EqualWeights(Len(mu)), mu, cov)
            /\ UNCHANGED err
    /\ stages' = Append(stages, "fallback_equal")
    /\ UNCHANGED <<cls, backend, mu, cov, warnings, primary, candTangency, path, result, frontierVars, multiVars, extVars>>

\* _solve_with_alternative_method, the inner try: np.linalg.inv raises on a
\* singular matrix (equal weights are returned), otherwise the better of the
\* two candidates is returned
TangencyCandidate ==
    /\ pc = "fallback_tangency"
    /\ IF ~Invertible(cov, Len(mu))
       THEN /\ candTangency' = NoCandidate
            /\ path' = "equal"
            /\ result' = ResultOf(candEqual)
       ELSE LET tan == Candidate(TangencyWeights(mu, cov), mu, cov)
                pick == PickFallback(tan, candEqual)
            IN  /\ candTangency' = tan
                /\ path' = pick
                /\ result' = IF pick = "tangency" THEN ResultOf(tan) ELSE ResultOf(candEqual)
    /\ pc' = "returned"
    /\ stages' = Append(stages, "fallback_tangency")
    /\ UNCHANGED <<cls, backend, mu, cov, warnings, err, primary, candEqual, frontierVars, multiVars, extVars>>

\* ------------------------------------- calculate_efficient_frontier: steps
\* diagonal and constant-covariance symmetric matrices, and tables whose
\* column count differs from the number of instruments
FrontierCovInputs(n) ==
    {SquareCov(n, d, c, 0) : d \in [1..MaxN -> 0..MaxVar], c \in {0, 1}}
    \cup {FlatCov(n, c) : c \in (1..MaxN) \ {n}}

FrontierInit ==
    /\ \E im \in Impls : cls = im[1] /\ backend = im[2]
    /\ mu \in MuInputs /\ Len(mu) > 0
    /\ cov \in FrontierCovInputs(Len(mu))
    /\ numPoints \in 0..MaxPoints
    /\ fpc = "loop"
    /\ ti = 0
    /\ frontier = [risks |-> <<>>, returns |-> <<>>]
    /\ outcomes = <<>>
    /\ SharpeIdle
    /\ MultiIdle
    /\ ExtIdle

\* one iteration of "for target in target_returns"
FrontierStep ==
    /\ fpc = "loop"
    /\ ti < numPoints
    /\ LET t == TargetReturn(mu, numPoints, ti + 1)
       IN  \E o \in FrontierSolve(backend, mu, cov, t) :
             /\ frontier' = FrontierAppend(frontier, o, t)
             /\ outcomes' = Append(outcomes, o)
    /\ ti' = ti + 1
    /\ UNCHANGED <<extVars, sharpeVars, multiVars, numPoints, fpc>>

\* "return risks, returns_list"
FrontierReturn ==
    /\ fpc = "loop"
    /\ ti = numPoints
    /\ fpc' = "returned"
    /\ UNCHANGED <<extVars, sharpeVars, multiVars, numPoints, ti, frontier, outcomes>>

FrontierNext == FrontierStep \/ FrontierReturn

SpecFrontier == FrontierInit /\ [][FrontierNext]_vars

\* --------------------------------------- MultiObjectiveOptimizer: steps
SlsqpStrategies == {"risk_constraint", "stable_returns", "risk_parity"}

\* correlation_threshold: -0.5, 0, 0.5 (the default)
Thresholds == {[num |-> t, den |-> 2] : t \in {0 - 1, 0, 1}}

\* symmetric n x n tables with variances in {1, 2} and covariances in {0, 1}
HrpCovInputs(n) ==
    {[rows |-> n, cols |-> n,
      m |-> [i \in 1..n |-> [j \in 1..n |->
               IF i = j THEN d[i] ELSE IF i < j THEN o[<<i, j>>] ELSE o[<<j, i>>]]]] :
        d \in [1..n -> {1, 2}],
        o \in [{p \in (1..n) \X (1..n) : p[1] < p[2]} -> {0, 1}]}

MultiInit ==
    /\ cls = "MultiObjectiveOptimizer" /\ backend = "scipy"
    /\ \/ /\ strategy \in SlsqpStrategies
          /\ mu \in MuInputs /\ Len(mu) > 0
          /\ cov \in {SquareCov(Len(mu), d, c, 0) :
                        d \in [1..MaxN -> 0..MaxVar], c \in OffDiagVals}
          /\ threshold = Zero
          /\ mpc = "solve"
       \/ /\ strategy = "hierarchical_risk_parity"
          /\ \E n \in 1..MaxAssets :
               /\ mu \in {[i \in 1..n |-> x] : x \in {RiskFree, RiskFree + 1}}
               /\ cov \in HrpCovInputs(n)
          /\ threshold \in Thresholds
          /\ mpc = "cluster"
    \* clusters = [{i} for i in range(n)]
    /\ clusters = [i \in 1..Len(mu) |-> {i}]
    /\ ci = 0
    \* optimal_weights = np.zeros(n)
    /\ optimalWeights = [i \in 1..Len(mu) |-> Zero]
    /\ solves = <<>>
    /\ mResult = NoMultiResult
    /\ SharpeIdle
    /\ FrontierIdle
    /\ ExtIdle

\* maximize_sharpe_with_risk_constraint, optimize_for_stable_returns,
\* risk_parity_optimization: the try block and its two fallbacks
SlsqpStrategy ==
    /\ mpc = "solve"
    /\ \E o \in MultiSolve(strategy, mu, cov) :
         /\ solves' = Append(solves, o.status)
         /\ mResult' = IF o.status = "ok"
                       THEN [weights |-> o.w, metrics |-> MetricsOf(o.w, mu, cov)]
                       ELSE FallbackOptimization(mu, cov)
    /\ mpc' = "returned"
    /\ UNCHANGED <<extVars, sharpeVars, frontierVars, strategy, threshold, clusters, ci, optimalWeights>>

\* _build_hierarchical_clusters: one pass of the while loop that finds a pair
MergeStep ==
    /\ mpc = "cluster"
    /\ MergeablePairs(clusters, cov, threshold) # {}
    /\ LET p == FirstPair(MergeablePairs(clusters, cov, threshold))
       IN  clusters' = MergeClusters(clusters, p[1], p[2])
    /\ UNCHANGED <<extVars, sharpeVars, frontierVars, strategy, mpc, threshold, ci, optimalWeights,
                   solves, mResult>>

\* _build_hierarchical_clusters: the pass that finds no pair; return clusters
ClustersBuilt ==
    /\ mpc = "cluster"
    /\ MergeablePairs(clusters, cov, threshold) = {}
    /\ mpc' = "allocate"
    /\ UNCHANGED <<extVars, sharpeVars, frontierVars, strategy, threshold, clusters, ci,
                   optimalWeights, solves, mResult>>

\* hierarchical_risk_parity: one iteration of "for i, cluster in enumerate(clusters)"
\* (an exception of the intra-cluster solve is not caught)
AllocateCluster ==
    /\ mpc = "allocate"
    /\ ci < Len(clusters)
    /\ LET cluster == clusters[ci + 1]
           m == Cardinality(cluster)
           budget == ClusterBudget(Len(clusters))
       IN  IF m = 1
           THEN /\ optimalWeights' = AssignCluster(optimalWeights, cluster, budget,
                                                   Weights(<<1>>, 1))
                /\ solves' = Append(solves, "single")
                /\ mpc' = mpc
           ELSE \E o \in IntraSolve(m) :
                  /\ solves' = Append(solves, o.status)
                  /\ IF o.status = "raise"
                     THEN mpc' = "raised" /\ UNCHANGED optimalWeights
                     ELSE /\ mpc' = mpc
                          /\ optimalWeights' = AssignCluster(optimalWeights, cluster, budget,
                                                             IntraClusterWeights(o, m))
    /\ ci' = ci + 1
    /\ UNCHANGED <<extVars, sharpeVars, frontierVars, strategy, threshold, clusters, mResult>>

\* hierarchical_risk_parity: metrics and return
HrpReturn ==
    /\ mpc = "allocate"
    /\ ci = Len(clusters)
    /\ mResult' = [weights |-> FracsToWeights(optimalWeights),
                   metrics |-> MetricsOf(FracsToWeights(optimalWeights), mu, cov)]
    /\ mpc' = "returned"
    /\ UNCHANGED <<extVars, sharpeVars, frontierVars, strategy, threshold, clusters, ci,
                   optimalWeights, solves>>

MultiNext == SlsqpStrategy \/ MergeStep \/ ClustersBuilt \/ AllocateCluster \/ HrpReturn

SpecMulti == MultiInit /\ [][MultiNext]_vars

\* _build_hierarchical_clusters on its own: the while loop keeps running
\* until a pass finds no pair
\* tables of one to three instruments
ClusterInit ==
    /\ cls = "MultiObjectiveOptimizer" /\ backend = "scipy"
    /\ strategy = "hierarchical_risk_parity"
    /\ \E n \in 1..3 :
         /\ mu = [i \in 1..n |-> RiskFree]
         /\ cov \in HrpCovInputs(n)
    /\ threshold \in Thresholds
    /\ mpc = "cluster"
    /\ clusters = [i \in 1..Len(mu) |-> {i}]
    /\ ci = 0
    /\ optimalWeights = [i \in 1..Len(mu) |-> Zero]
    /\ solves = <<>>
    /\ mResult = NoMultiResult
    /\ SharpeIdle
    /\ FrontierIdle
    /\ ExtIdle

ClusterNext == MergeStep \/ ClustersBuilt

SpecClusters ==
    ClusterInit /\ [][ClusterNext]_vars /\ WF_vars(MergeStep) /\ WF_vars(ClustersBuilt)

SharpeNext == Validate \/ Primary \/ EqualCandidate \/ TangencyCandidate

SpecSharpe == SharpeInit /\ [][SharpeNext]_vars

\* ------------------------------------------------- claims: Sharpe machine
ValidationErrors == {"empty_mean", "empty_cov", "dimension_mismatch", "allclose_shapes"}
Returned == pc = "returned"

\* C1: maximize_sharpe_ratio never returns a NaN Sharpe ratio or missing
\* weights; a NaN Sharpe ratio on the primary or the fallback path ends the
\* call with a raised error.
C1_NeverReturnsNaN ==
    Returned => ~IsNaN(result.sharpe) /\ ~result.weights.nan

\* C2: after a failed primary solve the returned pair is one of the fallback
\* candidates, and never the one whose Sharpe ratio is strictly lower than
\* the other's.
C2_FallbackReturnsBetter ==
    (Returned /\ path # "primary") =>
        /\ candEqual.made
        /\ \/ result = ResultOf(candEqual)
           \/ candTangency.made /\ result = ResultOf(candTangency)
        /\ candTangency.made =>
              /\ ~Gt(candTangency.s, result.sharpe)
              /\ ~Gt(candEqual.s, result.sharpe)

C2_Witness ==
    /\ Returned /\ path = "tangency"
    /\ primary \in {"fail", "raise"}
    /\ Gt(candTangency.s, candEqual.s)
    /\ result = ResultOf(candTangency)

\* C3: after validation the call is the chain primary -> fallback -> failed:
\* a successful primary solve is returned with no fallback attempted, every
\* primary failure enters the fallback chain, and the call raises only when
\* no fallback candidate can be computed.
C3_FallbackChain ==
    /\ primary = "ok" =>
          /\ Returned /\ path = "primary"
          /\ stages = <<"validate", "primary">>
          /\ ~candEqual.made /\ ~candTangency.made
    /\ primary \in {"fail", "raise", "nan"} =>
          /\ pc \in {"fallback_equal", "fallback_tangency", "returned", "raised"}
          /\ pc # "fallback_equal" => Len(stages) >= 3 /\ stages[3] = "fallback_equal"
          /\ Returned => path \in {"tangency", "equal"}
    /\ (pc = "raised" /\ err \notin ValidationErrors) =>
          /\ primary \in {"fail", "raise", "nan"}
          /\ ~candEqual.made /\ ~candTangency.made
          /\ cov.cols # Len(mu) /\ ~Invertible(cov, Len(mu))

C3_Witness ==
    /\ pc = "raised" /\ err = "fallback"
    /\ stages = <<"validate", "primary", "fallback_equal">>

C5_InvalidInputRaisesFirst ==
    (pc # "start" /\ (Len(mu) = 0 \/ cov.rows = 0 \/ cov.cols = 0 \/ Len(mu) # cov.rows)) =>
        /\ pc = "raised"
        /\ err \in {"empty_mean", "empty_cov", "dimension_mismatch"}
        /\ stages = <<"validate">>
        /\ primary = "none"
        /\ ~candEqual.made /\ ~candTangency.made
        /\ result = NoResult

C5_Witness ==
    /\ pc = "raised" /\ err = "dimension_mismatch"
    /\ Len(mu) > 0 /\ cov.rows > 0 /\ cov.cols > 0

\* C6 (as stated): a covariance matrix that is non-symmetric beyond tolerance
\* makes maximize_sharpe_ratio raise instead of solving.
C6_AsymmetricRaises ==
    (pc # "start" /\ cov.rows = cov.cols /\ ~Symmetric(cov)) =>
        pc = "raised" /\ stages = <<"validate">>

\* C6 (amended): a non-empty square covariance matrix with as many rows as
\* the return vector is not rejected for being non-symmetric: the validation
\* logs a warning, the solve is attempted and the call never raises.
C6_AsymmetricOnlyWarns ==
    (/\ pc # "start"
     /\ Len(mu) > 0 /\ cov.rows = Len(mu) /\ cov.cols = Len(mu)
     /\ ~Symmetric(cov)) =>
        /\ "asymmetric" \in warnings
        /\ err = "none"
        /\ pc \in {"primary", "fallback_equal", "fallback_tangency", "returned"}

C6_Witness ==
    /\ Returned /\ ~Symmetric(cov) /\ "asymmetric" \in warnings
    /\ ValidWeights(result.weights, Len(mu))

\* C7: for the same input the cvxpy backend and the scipy backend of
\* PortfolioOptimizer return the same weights: a solution returned by one
\* backend is a solution of the other.
C7_BackendsAgree ==
    (Returned /\ path = "primary" /\ cls = "PortfolioOptimizer") =>
        \E o \in PrimarySolve(IF backend = "cvxpy" THEN "scipy" ELSE "cvxpy", mu, cov) :
            o.status = "ok" /\ SameWeights(o.w, result.weights)

\* ------------------------------------------------------ claims: frontier
RECURSIVE OkTargets(_, _, _, _)
OkTargets(o, v, k, j) ==
    IF j = 0 THEN <<>>
    ELSE IF o[j].status = "ok"
         THEN Append(OkTargets(o, v, k, j - 1), TargetReturn(v, k, j))
    ELSE OkTargets(o, v, k, j - 1)

RECURSIVE OkRisks(_, _)
OkRisks(o, j) ==
    IF j = 0 THEN <<>>
    ELSE IF o[j].status = "ok" THEN Append(OkRisks(o, j - 1), o[j].risk)
    ELSE OkRisks(o, j - 1)

\* C8: the two lists always have the same length, at most the number of
\* targets; a target whose solve fails or raises is skipped and the loop
\* goes on to the last target; the returned returns are exactly the targets
\* of the successful solves, in increasing target order, each with the risk
\* of its own solve.
C8_FrontierSkipsFailures ==
    /\ Len(frontier.risks) = Len(frontier.returns)
    /\ Len(frontier.returns) <= ti /\ ti <= numPoints
    /\ Len(outcomes) = ti
    /\ frontier.returns = OkTargets(outcomes, mu, numPoints, ti)
    /\ frontier.risks = OkRisks(outcomes, ti)
    /\ \A i \in 1..Len(frontier.returns) : \A j \in i..Len(frontier.returns) :
          frontier.returns[i].num <= frontier.returns[j].num
    /\ fpc = "returned" => ti = numPoints

C8_Witness ==
    /\ fpc = "returned" /\ numPoints = 3
    /\ outcomes[1].status = "ok" /\ outcomes[2].status # "ok" /\ outcomes[3].status = "ok"
    /\ Len(frontier.returns) = 2
    /\ frontier.returns[1].num < frontier.returns[2].num

\* ---------------------------------------- claims: MultiObjectiveOptimizer
Hrp == strategy = "hierarchical_risk_parity"
SolverFailed == \E k \in 1..Len(solves) : solves[k] \in {"fail", "raise"}

RECURSIVE SumOver(_, _)
SumOver(f, S) ==
    IF S = {} THEN 0
    ELSE LET x == CHOOSE x \in S : TRUE IN f[x] + SumOver(f, S \ {x})

\* instrument i holds the share 1 / (K * size) of the whole portfolio
EqualShare(fr, K, size) == fr.num * K * size = fr.den

\* C9 (as stated): each of the four strategies returns the equal-weight
\* vector 1/n with its metrics whenever its solver reports failure or raises,
\* and none propagates the failure.
C9_AllFourFallBackToEqual ==
    (mpc \in {"returned", "raised"} /\ SolverFailed) =>
        /\ mpc = "returned"
        /\ SameWeights(mResult.weights, EqualWeights(Len(mu)))

\* C9 (amended): the three SLSQP strategies return the equal-weight vector
\* 1/n with its metrics whenever their solver reports failure or raises, and
\* never raise; in hierarchical_risk_parity a reported failure of an
\* intra-cluster solve gives the members of that cluster equal shares of the
\* cluster's budget only, and an exception of that solve leaves the call.
C9_FallbackPerStrategy ==
    /\ (strategy \in SlsqpStrategies /\ mpc # "solve") =>
          /\ mpc = "returned"
          /\ solves[1] # "ok" =>
                mResult = [weights |-> EqualWeights(Len(mu)),
                           metrics |-> MetricsOf(EqualWeights(Len(mu)), mu, cov)]
    /\ Hrp =>
          /\ mpc = "raised" <=> (\E k \in 1..Len(solves) : solves[k] = "raise")
          /\ mpc = "raised" => mResult = NoMultiResult
          /\ \A k \in 1..Len(solves) : solves[k] = "fail" =>
                \A i \in clusters[k] :
                    EqualShare(optimalWeights[i], Len(clusters), Cardinality(clusters[k]))

C9_Witness ==
    /\ Hrp /\ mpc = "returned"
    /\ \E k \in 1..Len(solves) : solves[k] = "fail"
    /\ ~SameWeights(mResult.weights, EqualWeights(Len(mu)))

\* C10: hierarchical_risk_parity gives every cluster the total weight
\* 1 / (number of clusters), split inside the cluster by weights that sum to
\* 1 (equal ones when the intra-cluster solve does not succeed); the returned
\* vector is non-negative, covers every instrument's cluster and sums to 1.
C10_HrpBudget ==
    (Hrp /\ mpc = "returned") =>
        LET w == mResult.weights
            K == Len(clusters)
        IN  /\ ValidWeights(w, Len(mu))
            /\ \A i \in 1..Len(mu) : Cardinality({k \in 1..K : i \in clusters[k]}) = 1
            /\ \A k \in 1..K : K * SumOver(w.num, clusters[k]) = w.den
            /\ \A k \in 1..K : solves[k] = "fail" =>
                  \A i \in clusters[k] :
                      w.num[i] * K * Cardinality(clusters[k]) = w.den

C10_Witness ==
    /\ Hrp /\ mpc = "returned" /\ Len(clusters) = 2
    /\ \E k \in 1..2 :
         /\ solves[k] = "ok" /\ Cardinality(clusters[k]) = 2
         /\ \E i \in clusters[k] : \E j \in clusters[k] :
               mResult.weights.num[i] < mResult.weights.num[j]


RECURSIVE SumOverNames(_, _)
SumOverNames(f, S) ==
    IF S = {} THEN 0
    ELSE LET x == CHOOSE x \in S : TRUE IN f[x] + SumOverNames(f, S \ {x})

\* the correlation reported for a NaN correlation: 0
Zero3 == [sxy |-> 0, sxx |-> 1, syy |-> 1]

\* ------------------------------------- signal-enhanced optimizers: pieces
\* Signal scores are integers in units of 10; a signal is [vals, extra]: the
\* scores of the n instruments and whether its index holds one more label
\* (score 0) that is not a column of the return table.
SignalNames == {"composite_signal", "momentum_signal"}

\* the keys of the default signal_weights of optimize_with_enhanced_signals
\* that occur in the signals of the model
DefaultSignalWeights == {"momentum_signal"}

SigVals == {0 - 1, 0, 1}

\* the scores over the signal's own index
FullVals(sg) == IF sg.extra THEN Append(sg.vals, 0) ELSE sg.vals

\* n (n - 1) times the sample variance (ddof = 1) of a vector, times n
VarParts(x) == Len(x) * Dot(x, x) - SumSeq(x) * SumSeq(x)

\* entries of an expected-return vector handed to the solver: the value
\* base + shift, where shift[nm] is the contribution of signal nm in units
\* that are positive (0.3 sigma(mu) for the composite signal,
\* 0.02 sigma(mu) / (L sigma(s)) for a weighted signal), or NaN
Val(b, sh) == [k |-> "val", base |-> b, shift |-> sh]
NaNVal == [k |-> "nan", base |-> 0, shift |-> NoSignals]
NoShift == NoSignals
IsPlain(e, b) ==
    e.k = "val" /\ e.base = b /\ \A nm \in DOMAIN e.shift : e.shift[nm] = 0

\* base + 3 c sigma < 1 (the floor 0.01), sigma^2 = V / (n (n - 1)) > 0
BelowFloor(b, c, V, n) ==
    LET L == 3 * c
        R == 1 - b
    IN  IF L = 0 THEN R > 0
        ELSE IF L > 0 THEN R > 0 /\ L * L * V < R * R * n * (n - 1)
        ELSE R >= 0 \/ L * L * V > R * R * n * (n - 1)

\* optimize_with_signals: base + composite_signal * base.std() * 0.3, clipped
\* below at 0.01; the sum is aligned on the union of the two indexes
SimpleEnhancedReturns(v, sg) ==
    LET n == Len(v)
        V == VarParts(v)
        entry(i) ==
            IF n = 1 THEN NaNVal
            ELSE IF V = 0
                 THEN IF v[i] < 1 THEN Val(1, NoShift) ELSE Val(v[i], NoShift)
            ELSE IF BelowFloor(v[i], sg.vals[i], V, n) THEN Val(1, NoShift)
            ELSE Val(v[i], [nm \in {"composite_signal"} |-> sg.vals[i]])
    IN  [i \in 1..Len(FullVals(sg)) |-> IF i <= n THEN entry(i) ELSE NaNVal]

\* the signals _calculate_enhanced_expected_returns, _calculate_enhanced_cov_matrix
\* and _analyze_signal_contributions use: "signal_name in signal_weights"
Applicable(sgs) == DOMAIN sgs \cap DefaultSignalWeights

\* _calculate_enhanced_expected_returns: for every applicable signal
\*   enhanced += (s - s.mean()) / s.std() * annual_mean.std() * weight * 0.1
\* s.std() is 0 for a constant signal (0 / 0 = NaN) and NaN for one score;
\* annual_mean.std() is NaN for one instrument
EnhancedReturns(v, sgs) ==
    LET n == Len(v)
        A == Applicable(sgs)
        long == IF \E nm \in A : sgs[nm].extra THEN n + 1 ELSE n
        bad == \E nm \in A : n = 1 \/ VarParts(FullVals(sgs[nm])) = 0
        centred(nm, i) ==
            Len(FullVals(sgs[nm])) * FullVals(sgs[nm])[i] - SumSeq(FullVals(sgs[nm]))
    IN  [i \in 1..long |->
            IF A = {} THEN Val(v[i], NoShift)
            ELSE IF bad \/ i > n \/ \E nm \in A : i > Len(FullVals(sgs[nm])) THEN NaNVal
            ELSE IF VarParts(v) = 0 THEN Val(v[i], NoShift)
            ELSE Val(v[i], [nm \in A |-> centred(nm, i)])]

\* signal_corr[etf] = s[etf] * weight * 0.05 = 0.1 * score (weight 0.2,
\* scores in units of 10); the covariance of i # j is multiplied by
\* 1 + sum over the signals of signal_corr[i] * signal_corr[j]
CovScale == 100

CovFactor(sgs, i, j) ==
    CovScale + SumOverNames([nm \in Applicable(sgs) |-> sgs[nm].vals[i] * sgs[nm].vals[j]],
                            Applicable(sgs))

\* _calculate_enhanced_cov_matrix: entries are held times CovScale; when the
\* smallest eigenvalue is negative the diagonal is raised by 1.1 times its
\* absolute value (lifted; a smallest eigenvalue of 0 adds 0)
EnhancedCov(c, sgs) ==
    LET m == [i \in 1..c.rows |-> [j \in 1..c.cols |->
                 IF i = j THEN CovScale * c.m[i][j]
                 ELSE c.m[i][j] * CovFactor(sgs, i, j)]]
        adj == [rows |-> c.rows, cols |-> c.cols, m |-> m]
    IN  [rows |-> c.rows, cols |-> c.cols, m |-> m, scale |-> CovScale,
         lifted |-> ~PSD(adj)]

\* returns.mean() * trading_days and returns.cov() * trading_days as they are
Unadjusted(v, c) ==
    [mu |-> [i \in 1..Len(v) |-> Val(v[i], NoShift)],
     cov |-> [rows |-> c.rows, cols |-> c.cols, m |-> c.m, scale |-> 1, lifted |-> FALSE]]

\* the same expected returns and the same covariance, entry by entry
SameInputs(a, b) ==
    /\ Len(a.mu) = Len(b.mu)
    /\ \A i \in 1..Len(a.mu) : b.mu[i].k = "val" /\ IsPlain(a.mu[i], b.mu[i].base)
    /\ a.cov.rows = b.cov.rows /\ a.cov.cols = b.cov.cols
    /\ ~a.cov.lifted /\ ~b.cov.lifted
    /\ \A i \in 1..a.cov.rows : \A j \in 1..a.cov.cols :
          a.cov.m[i][j] * b.cov.scale = b.cov.m[i][j] * a.cov.scale

\* np.dot of the weights with the vector and the matrix works
ShapesAgree(inp) == Len(inp.mu) = inp.cov.rows /\ inp.cov.rows = inp.cov.cols

\* the caps of SimpleEnhancedOptimizer._optimize_portfolio, in percent
SimpleVolCap == 25
SimpleWeightCap == [num |-> 1, den |-> 2]

\* the caps of EnhancedPortfolioOptimizer._optimize_with_enhanced_inputs
EnhancedVolCap == 20
EnhancedWeightCap == [num |-> 2, den |-> 5]

\* np.max(weights) <= cap
WithinWeightCap(w, cap) == \A i \in 1..Len(w.num) : w.num[i] * cap.den <= cap.num * w.den

\* sqrt(w' Cov w) <= cap percent, on the matrix before the eigenvalue floor
WithinVolCap(w, cv, cap) ==
    QuadForm(w.num, cv.m, cv.rows) <= cap * cap * w.den * w.den * cv.scale

\* _optimize_portfolio: minimize(negative_sharpe_ratio, ..., bounds (0, 0.5),
\* constraints sum = 1, volatility <= 0.25, max weight <= 0.5)
SimpleFeasible(inp) ==
    {w \in GridWeights(Len(inp.mu)) :
        WithinWeightCap(w, SimpleWeightCap) /\ WithinVolCap(w, inp.cov, SimpleVolCap)}

SimpleSolve(inp) ==
    IF ~ShapesAgree(inp) THEN {Raise}
    ELSE {Fail, Raise} \cup {Ok(w) : w \in SimpleFeasible(inp)}

\* _optimize_with_enhanced_inputs: negative_sharpe_ratio reads the name
\* "enhanced", which is not defined, so the first evaluation of the objective
\* raises NameError inside minimize
EnhancedSolve(inp) == {Raise}

\* _calculate_risk_parity_weights: minimize(...) with bounds (0, 1), sum = 1
RiskParitySolve(n) == {Fail, Raise} \cup {Ok(w) : w \in GridWeights(n)}

\* "return result.x if result.success else initial_weights"
RiskParityWeights(o, n) == IF o.status = "ok" THEN o.w ELSE EqualWeights(n)

\* Pearson correlation of the scores and the weights, r = sxy / sqrt(sxx syy)
CorrParts(x, y) ==
    [sxy |-> Len(x) * Dot(x, y) - SumSeq(x) * SumSeq(y),
     sxx |-> VarParts(x),
     syy |-> VarParts(y)]

\* correlation > t.num / t.den with t > 0 (false for NaN)
CorrAbove(p, t) ==
    /\ p.sxx # 0 /\ p.syy # 0
    /\ p.sxy > 0
    /\ p.sxy * p.sxy * t.den * t.den > t.num * t.num * p.sxx * p.syy

\* _analyze_signal_weights (its except branch returns only
\* {'signal_effectiveness': 'unknown'}; no aligned input reaches it)
AnalyzeSignalWeights(sg, w) ==
    LET p == CorrParts(sg.vals, w.num)
    IN  [present |-> TRUE,
         signal_weight_correlation |-> IF p.sxx = 0 \/ p.syy = 0 THEN Zero3 ELSE p,
         signal_effectiveness |->
             IF CorrAbove(p, [num |-> 3, den |-> 10]) THEN "high"
             ELSE IF CorrAbove(p, [num |-> 1, den |-> 10]) THEN "medium"
             ELSE "low"]

\* _analyze_signal_contributions: raises when no signal is applicable
\* (max() of an empty sequence) or when a signal and the weights differ in
\* length; otherwise the correlation of every applicable signal with the
\* weights and the dominant signal
ContributionsRaise(sgs, w) ==
    \/ Applicable(sgs) = {}
    \/ \E nm \in Applicable(sgs) : Len(FullVals(sgs[nm])) # Len(w.num)

AnalyzeSignalContributions(sgs, w) ==
    [present |-> TRUE,
     signal_performance |->
         [nm \in Applicable(sgs) |->
             LET p == CorrParts(sgs[nm].vals, w.num)
             IN  IF p.sxx = 0 \/ p.syy = 0 THEN Zero3 ELSE p],
     dominant_signal |-> CHOOSE nm \in Applicable(sgs) : TRUE]


\* -------------------------------------- signal-enhanced optimizers: steps
SignalImpls == {"SimpleEnhancedOptimizer", "EnhancedPortfolioOptimizer"}

\* annualised mean returns of the table: -1%, 1% (the floor 0.01) and MaxMu%
SignalMuVals == {0 - 1, 1, MaxMu}

\* returns.cov() * trading_days: symmetric positive semi-definite tables with
\* one variance on the diagonal and one covariance off it
SignalCovInputs(n) ==
    {c \in {SquareCov(n, [i \in 1..n |-> d], o, 0) : d \in 0..MaxVar, o \in OffDiagVals} :
        PSD(c)}

\* score vectors: all zero, or one instrument scored +1 or -1
SignalVectors(n) ==
    {[i \in 1..n |-> 0]} \cup
    {[i \in 1..n |-> IF i = k THEN x ELSE 0] : k \in 1..n, x \in {0 - 1, 1}}

\* the signals mapping: empty, or some of the names with scores over the
\* columns of the table, all with or all without one extra label
SignalInputs(n) ==
    {NoSignals} \cup
    {[nm \in D |-> [vals |-> v, extra |-> x]] :
        D \in (SUBSET SignalNames) \ {{}}, v \in SignalVectors(n), x \in BOOLEAN}

\* the first instrument has one mean return, the others another one
SignalMuInputs(n) ==
    {[i \in 1..n |-> IF i = 1 THEN a ELSE b] : a \in SignalMuVals, b \in SignalMuVals}

SignalInit ==
    /\ cls \in SignalImpls /\ backend = "scipy"
    /\ \E n \in 1..MaxAssets :
         /\ mu \in SignalMuInputs(n)
         /\ cov \in SignalCovInputs(n)
         /\ signals \in SignalInputs(n)
    /\ spc = "start"
    /\ sInputs = NoInputs
    /\ sSolves = <<>>
    /\ sExcept = FALSE
    /\ sResult = NoSignalResult
    /\ SharpeIdle
    /\ FrontierIdle
    /\ AuxIdle
    /\ MultiIdle
    /\ RiskIdle
    /\ CallIdle
    /\ CompareIdle

\* optimize_with_signals up to the call of _optimize_portfolio;
\* optimize_with_enhanced_signals up to _optimize_with_enhanced_inputs
EnhanceInputs ==
    /\ spc = "start"
    /\ IF cls = "SimpleEnhancedOptimizer"
       THEN IF "composite_signal" \notin DOMAIN signals
            THEN spc' = "traditional" /\ UNCHANGED sInputs
            ELSE /\ spc' = "optimize"
                 /\ sInputs' = [mu |-> SimpleEnhancedReturns(mu, signals["composite_signal"]),
                                cov |-> Unadjusted(mu, cov).cov]
       ELSE /\ spc' = "optimize"
            /\ sInputs' = [mu |-> EnhancedReturns(mu, signals),
                           cov |-> EnhancedCov(cov, signals)]
    /\ UNCHANGED <<riskVars, callVars, cmpVars, auxVars, sharpeVars, frontierVars, multiVars, signals, sSolves, sExcept, sResult>>

\* the weights a solve leaves the optimizer with: the solution, or the
\* fallback weights after a failure or an exception
SimpleWeights(o, n) == IF o.status = "ok" THEN o.w ELSE EqualWeights(n)

EnhancedWeights(o, r, n, len) ==
    IF o.status = "ok" THEN o.w
    ELSE IF r.status = "raise" THEN EqualWeights(len)
    ELSE RiskParityWeights(r, n)

\* _optimize_portfolio / _optimize_with_enhanced_inputs with their fallbacks
\* and the metrics of the weights.  When the expected returns and the
\* covariance differ in length np.dot raises in the solve and again in the
\* metrics of the fallback weights: optimize_with_signals catches that,
\* optimize_with_enhanced_signals does not.
Optimize ==
    /\ spc = "optimize"
    /\ IF cls = "SimpleEnhancedOptimizer"
       THEN \E o \in SimpleSolve(sInputs) :
              /\ sSolves' = Append(sSolves, o.status)
              /\ IF ShapesAgree(sInputs)
                 THEN /\ spc' = "analyze"
                      /\ sResult' = [weights |-> SimpleWeights(o, Len(sInputs.mu)),
                                     of |-> sInputs, signal_analysis |-> NoAnalysis]
                      /\ UNCHANGED sExcept
                 ELSE /\ spc' = "traditional"
                      /\ sExcept' = TRUE
                      /\ UNCHANGED sResult
       ELSE \E o \in EnhancedSolve(sInputs) : \E r \in RiskParitySolve(sInputs.cov.rows) :
              /\ sSolves' = IF o.status = "ok" THEN Append(sSolves, o.status)
                            ELSE sSolves \o <<o.status, r.status>>
              /\ IF ShapesAgree(sInputs)
                 THEN /\ spc' = "analyze"
                      /\ sResult' = [weights |-> EnhancedWeights(o, r, sInputs.cov.rows,
                                                                  Len(sInputs.mu)),
                                     of |-> sInputs, signal_analysis |-> NoAnalysis]
                 ELSE spc' = "raised" /\ UNCHANGED sResult
              /\ UNCHANGED sExcept
    /\ UNCHANGED <<riskVars, callVars, cmpVars, auxVars, sharpeVars, frontierVars, multiVars, signals, sInputs>>

\* metrics['signal_analysis'] = ...; return optimal_weights, metrics
Analyze ==
    /\ spc = "analyze"
    /\ IF cls = "SimpleEnhancedOptimizer"
       THEN /\ spc' = "returned"
            /\ sResult' = [sResult EXCEPT !.signal_analysis =
                              AnalyzeSignalWeights(signals["composite_signal"], sResult.weights)]
       ELSE IF ContributionsRaise(signals, sResult.weights)
            THEN spc' = "raised" /\ sResult' = NoSignalResult
            ELSE /\ spc' = "returned"
                 /\ sResult' = [sResult EXCEPT !.signal_analysis =
                                   AnalyzeSignalContributions(signals, sResult.weights)]
    /\ UNCHANGED <<riskVars, callVars, cmpVars, auxVars, sharpeVars, frontierVars, multiVars, signals, sInputs, sSolves, sExcept>>

\* SimpleEnhancedOptimizer._traditional_optimization(returns), reached without
\* a composite signal and from "except Exception" of optimize_with_signals
Traditional ==
    /\ spc = "traditional"
    /\ \E o \in SimpleSolve(Unadjusted(mu, cov)) :
         /\ sSolves' = Append(sSolves, o.status)
         /\ sResult' = [weights |-> SimpleWeights(o, Len(mu)),
                        of |-> Unadjusted(mu, cov), signal_analysis |-> NoAnalysis]
    /\ sInputs' = Unadjusted(mu, cov)
    /\ spc' = "returned"
    /\ UNCHANGED <<riskVars, callVars, cmpVars, auxVars, sharpeVars, frontierVars, multiVars, signals, sExcept>>

SignalNext == EnhanceInputs \/ Optimize \/ Analyze \/ Traditional

SpecSignal == SignalInit /\ [][SignalNext]_vars

\* ----------------------------------- claims: signal-enhanced optimizers
SignalEnded == spc \in {"returned", "raised"}

\* C11: with an empty signals mapping both signal-enhanced optimizers return
\* weights and metrics computed from the unadjusted expected returns and
\* covariance; the call does not fail.
C11_EmptySignalsDegrade ==
    (SignalEnded /\ signals = NoSignals) =>
        /\ spc = "returned"
        /\ ValidWeights(sResult.weights, Len(mu))
        /\ SameInputs(sResult.of, Unadjusted(mu, cov))

\* every signal present is zero for every instrument and is indexed by the
\* columns of the table
ZeroSignal ==
    /\ signals # NoSignals
    /\ \A nm \in DOMAIN signals :
          ~signals[nm].extra /\ \A i \in 1..Len(mu) : signals[nm].vals[i] = 0

\* C12: with a signal that is zero for every instrument the solver is handed
\* the expected returns and the covariance of the unadjusted optimization,
\* for every return table.
C12_ZeroSignalSameInputs ==
    (ZeroSignal /\ spc \in {"optimize", "analyze", "returned"}) =>
        SameInputs(sInputs, Unadjusted(mu, cov))

\* C13: every returned weight vector respects the caps of its optimizer: no
\* weight above the maximum weight and volatility not above the cap.
C13_ReturnedWithinCaps ==
    spc = "returned" =>
        IF cls = "SimpleEnhancedOptimizer"
        THEN /\ WithinWeightCap(sResult.weights, SimpleWeightCap)
             /\ WithinVolCap(sResult.weights, sResult.of.cov, SimpleVolCap)
        ELSE /\ WithinWeightCap(sResult.weights, EnhancedWeightCap)
             /\ WithinVolCap(sResult.weights, sResult.of.cov, EnhancedVolCap)

\* C14: every result returned for a non-empty signals mapping carries the
\* signal attribution: the correlation of signal and weights and, for the
\* multi-signal optimizer, the dominant signal.
C14_ResultCarriesAttribution ==
    (spc = "returned" /\ signals # NoSignals) =>
        /\ sResult.signal_analysis.present
        /\ cls = "EnhancedPortfolioOptimizer" =>
              sResult.signal_analysis.dominant_signal \in DOMAIN signals


\* ---------------------------------------------- AdvancedRiskManager: pieces
\* lengths of the return series
MaxSample == 4
MaxDays == 5

\* the values of s in increasing order (np.percentile sorts the sample)
RECURSIVE SortAsc(_)
SortAsc(x) ==
    IF Len(x) = 0 THEN <<>>
    ELSE LET k == CHOOSE k \in 1..Len(x) : \A j \in 1..Len(x) : x[k] <= x[j]
         IN  <<x[k]>> \o SortAsc([j \in 1..(Len(x) - 1) |-> IF j < k THEN x[j] ELSE x[j + 1]])

\* a <= b on fractions with positive denominators
FracLe(a, b) == a.num * b.den <= b.num * a.den
FracLt(a, b) == a.num * b.den < b.num * a.den
FracEq(a, b) == a.num * b.den = b.num * a.den

\* _historical_var: np.percentile(returns, (1 - confidence_level) * 100),
\* linear interpolation at the position (n - 1)(1 - c) of the sorted sample
HistoricalVar(x, c) ==
    LET n == Len(x)
        srt == SortAsc(x)
        h == (n - 1) * (c.den - c.num)
        lo == h \div c.den
        r == h % c.den
    IN  IF r = 0 THEN [num |-> srt[lo + 1], den |-> 1]
        ELSE [num |-> srt[lo + 1] * c.den + r * (srt[lo + 2] - srt[lo + 1]), den |-> c.den]

TailLossesAbove(x, var) == {i \in 1..Len(x) : var.num <= x[i] * var.den}

\* tail_losses = returns[returns <= var], as the positions it keeps
TailLosses(x, var) == {i \in 1..Len(x) : x[i] * var.den <= var.num}

\* calculate_cvar(..., 'historical'):
\*   tail_losses.mean() if len(tail_losses) > 0 else var
HistoricalCvar(x, var) ==
    LET T == TailLosses(x, var)
    IN  IF T = {} THEN var
        ELSE [num |-> SumOver(x, T), den |-> Cardinality(T)]


\* a fraction in lowest terms with a positive denominator
Reduce(f) ==
    LET g == Gcd(IF f.num < 0 THEN 0 - f.num ELSE f.num, f.den)
    IN  IF f.num = 0 THEN [num |-> 0, den |-> 1]
        ELSE [num |-> f.num \div g, den |-> f.den \div g]

FracAdd(a, b) == Reduce([num |-> a.num * b.den + b.num * a.den, den |-> a.den * b.den])

RECURSIVE FracSum(_, _)
FracSum(fr, k) == IF k = 0 THEN Zero ELSE FracAdd(fr[k], FracSum(fr, k - 1))

\* cumulative_returns = (1 + portfolio_returns).cumprod(); the daily factors
\* 1 + r are given in halves (1 is -50%, 2 is 0%, 3 is +50%, 4 is +100%)
RECURSIVE CumProd(_, _)
CumProd(f, t) ==
    IF t = 0 THEN [num |-> 1, den |-> 1]
    ELSE [num |-> f[t] * CumProd(f, t - 1).num, den |-> 2 * CumProd(f, t - 1).den]

CumulativeReturns(f) == [t \in 1..Len(f) |-> CumProd(f, t)]

\* cumulative_returns.cummax()
RECURSIVE RunningMax(_, _)
RunningMax(c, t) ==
    IF t = 1 THEN c[1]
    ELSE IF FracLt(RunningMax(c, t - 1), c[t]) THEN c[t] ELSE RunningMax(c, t - 1)

\* drawdown = (cumulative_returns - running_max) / running_max
Drawdown(c) ==
    [t \in 1..Len(c) |->
        LET M == RunningMax(c, t)
        IN  Reduce([num |-> c[t].num * M.den - M.num * c[t].den, den |-> c[t].den * M.num])]

LoopStart == [in_drawdown |-> FALSE, current_duration |-> 0, drawdown_periods |-> <<>>,
              starts |-> <<>>]

LoopStepNotPositive(st, dd, t) ==
    IF dd.num <= 0
    THEN IF ~st.in_drawdown
         THEN [st EXCEPT !.in_drawdown = TRUE, !.current_duration = 1,
                         !.starts = Append(st.starts, t)]
         ELSE [st EXCEPT !.current_duration = st.current_duration + 1]
    ELSE IF st.in_drawdown
         THEN [st EXCEPT !.drawdown_periods = Append(st.drawdown_periods, st.current_duration),
                         !.in_drawdown = FALSE, !.current_duration = 0]
         ELSE st

\* the body of "for dd in drawdown"; starts records the period at which
\* in_drawdown is set
LoopStep(st, dd, t) ==
    IF dd.num < 0
    THEN IF ~st.in_drawdown
         THEN [st EXCEPT !.in_drawdown = TRUE, !.current_duration = 1,
                         !.starts = Append(st.starts, t)]
         ELSE [st EXCEPT !.current_duration = st.current_duration + 1]
    ELSE IF st.in_drawdown
         THEN [st EXCEPT !.drawdown_periods = Append(st.drawdown_periods, st.current_duration),
                         !.in_drawdown = FALSE, !.current_duration = 0]
         ELSE st

RECURSIVE DrawdownLoop(_, _)
DrawdownLoop(dd, t) ==
    IF t = 0 THEN LoopStart ELSE LoopStep(DrawdownLoop(dd, t - 1), dd[t], t)

DrawdownPeriodsClosedOnly(dd) == DrawdownLoop(dd, Len(dd))

\* the loop and "if in_drawdown: drawdown_periods.append(current_duration)"
DrawdownPeriods(dd) ==
    LET st == DrawdownLoop(dd, Len(dd))
    IN  IF st.in_drawdown
        THEN [st EXCEPT !.drawdown_periods = Append(st.drawdown_periods, st.current_duration)]
        ELSE st

\* smallest fraction of a non-empty sequence (drawdown.min())
RECURSIVE FracMin(_, _)
FracMin(fr, k) ==
    IF k = 1 THEN fr[1]
    ELSE IF FracLt(fr[k], FracMin(fr, k - 1)) THEN fr[k] ELSE FracMin(fr, k - 1)

RECURSIVE MaxSeq(_, _)
MaxSeq(x, k) ==
    IF k = 0 THEN 0 ELSE IF x[k] > MaxSeq(x, k - 1) THEN x[k] ELSE MaxSeq(x, k - 1)

\* calculate_drawdown_risk_metrics: the returned mapping
DrawdownRiskMetrics(c) ==
    LET dd == Drawdown(c)
        neg == {t \in 1..Len(dd) : dd[t].num < 0}
        periods == DrawdownPeriods(dd).drawdown_periods
    IN  [max_drawdown |-> FracMin(dd, Len(dd)),
         avg_drawdown |->
             IF neg = {} THEN Zero
             ELSE LET sm == FracSum([t \in 1..Len(dd) |-> IF t \in neg THEN dd[t] ELSE Zero],
                                    Len(dd))
                  IN  Reduce([num |-> sm.num, den |-> sm.den * Cardinality(neg)]),
         max_drawdown_duration |-> MaxSeq(periods, Len(periods)),
         avg_drawdown_duration |->
             IF Len(periods) = 0 THEN Zero
             ELSE Reduce([num |-> SumSeq(periods), den |-> Len(periods)]),
         drawdown_frequency |-> Reduce([num |-> Len(periods), den |-> Len(dd)]),
         drawdown_count |-> Len(periods)]

\* --------------------------------------------- AdvancedRiskManager: steps
\* returns of the sample, in percent
SampleVals == {0 - 2, 0 - 1, 0, 1}

\* confidence levels 0.5, 0.9, 0.95 (the default) and 0.99
ConfidenceLevels == {[num |-> c, den |-> 100] : c \in {50, 90, 95, 99}}

\* daily factors 1 + r in halves
FactorVals == {1, 2, 3, 4}

RiskInit ==
    /\ cls = "AdvancedRiskManager" /\ backend = "scipy"
    /\ mu = <<>> /\ cov = FlatCov(0, 0)
    /\ \/ /\ rFn = "calculate_cvar"
          /\ rReturns \in UNION {[1..n -> SampleVals] : n \in 1..MaxSample}
          /\ rConf \in ConfidenceLevels
       \/ /\ rFn = "calculate_drawdown_risk_metrics"
          /\ rReturns \in UNION {[1..n -> FactorVals] : n \in 1..MaxDays}
          /\ rConf = Zero
    /\ rpc = "start"
    /\ rOut = NoRiskOut
    /\ SharpeIdle
    /\ FrontierIdle
    /\ AuxIdle
    /\ MultiIdle
    /\ SignalIdle
    /\ CallIdle
    /\ CompareIdle

\* calculate_cvar(returns, confidence_level, 'historical'), which starts with
\* calculate_var(returns, confidence_level, 'historical')
CalculateCvar ==
    /\ rpc = "start" /\ rFn = "calculate_cvar"
    /\ LET var == HistoricalVar(rReturns, rConf)
       IN  rOut' = [var |-> var, cvar |-> HistoricalCvar(rReturns, var),
                    tail |-> TailLosses(rReturns, var)]
    /\ rpc' = "returned"
    /\ UNCHANGED <<auxVars, sharpeVars, frontierVars, multiVars, signalVars, callVars, cmpVars, rFn, rReturns, rConf>>

\* generate_risk_report, step 3: the cumulative product and
\* calculate_drawdown_risk_metrics
CalculateDrawdownRiskMetrics ==
    /\ rpc = "start" /\ rFn = "calculate_drawdown_risk_metrics"
    /\ LET c == CumulativeReturns(rReturns)
       IN  rOut' = [metrics |-> DrawdownRiskMetrics(c),
                    drawdown |-> Drawdown(c),
                    starts |-> DrawdownPeriods(Drawdown(c)).starts]
    /\ rpc' = "returned"
    /\ UNCHANGED <<auxVars, sharpeVars, frontierVars, multiVars, signalVars, callVars, cmpVars, rFn, rReturns, rConf>>

RiskNext == CalculateCvar \/ CalculateDrawdownRiskMetrics

SpecRisk == RiskInit /\ [][RiskNext]_vars

\* ------------------------------------------- claims: AdvancedRiskManager
CvarReturned == rFn = "calculate_cvar" /\ rpc = "returned"

\* C15: for every non-empty sample and confidence level 0 < c < 1 the
\* historical CVaR is at most the historical VaR; it is the mean of the
\* returns at or below the VaR, of which there is always at least one (the
\* smallest return), so the VaR itself is never substituted.
C15_CvarAtMostVar ==
    CvarReturned =>
        /\ FracLe(rOut.cvar, rOut.var)
        /\ rOut.tail = {i \in 1..Len(rReturns) : FracLe([num |-> rReturns[i], den |-> 1], rOut.var)}
        /\ rOut.tail # {}
        /\ rOut.cvar.num * Cardinality(rOut.tail) = SumOver(rReturns, rOut.tail) * rOut.cvar.den
        /\ \A i \in 1..Len(rReturns) :
              (\A j \in 1..Len(rReturns) : rReturns[i] <= rReturns[j]) => i \in rOut.tail

\* an interpolated VaR strictly between two returns, and a CVaR below it
C15_Witness ==
    /\ CvarReturned
    /\ rOut.var.den > 1
    /\ FracLt(rOut.cvar, rOut.var)
    /\ Cardinality(rOut.tail) >= 2
    /\ \E i \in 1..Len(rReturns) : i \notin rOut.tail


DrawdownReturned == rFn = "calculate_drawdown_risk_metrics" /\ rpc = "returned"

\* the series f has its only fall at day k, a fall of 50%, with days before
\* and after it
SingleCrash(f, k) ==
    /\ 1 < k /\ k < Len(f)
    /\ f[k] = 1
    /\ \A t \in 1..Len(f) : t # k => f[t] >= 2

MinusHalf == [num |-> 0 - 1, den |-> 2]

\* what the call establishes about a single-crash series
CrashSeen(k) ==
    /\ FracLe(rOut.metrics.max_drawdown, MinusHalf)
    /\ \A t \in 1..(k - 1) : rOut.drawdown[t].num = 0
    /\ rOut.drawdown[k].num < 0
    /\ Len(rOut.starts) = 1 /\ rOut.starts[1] = k
    /\ rOut.metrics.drawdown_count = 1

\* the returned metrics tell the crash day: no other single-crash series
\* yields the same metrics with its crash on a different day
MetricsIdentifyStart(k) ==
    \A n \in 3..MaxDays : \A g \in [1..n -> FactorVals] : \A j \in 2..(n - 1) :
        (SingleCrash(g, j) /\ DrawdownRiskMetrics(CumulativeReturns(g)) = rOut.metrics)
            => j = k

\* C16 (as stated): for a series with a single -50% day in its middle the
\* maximum drawdown is at most -0.50, the drawdown is zero before that day and
\* negative on it, and the reported metrics identify that day as the start of
\* the episode.
C16_CrashDayReported ==
    DrawdownReturned =>
        \A k \in 1..Len(rReturns) :
            SingleCrash(rReturns, k) => CrashSeen(k) /\ MetricsIdentifyStart(k)

\* C16 (amended): for a series with a single -50% day in its middle the
\* maximum drawdown is at most -0.50, the drawdown is zero before that day and
\* negative on it, and the loop opens its one episode at that day; the
\* returned mapping holds only the two drawdown sizes, the two durations, the
\* frequency and the count.
C16_CrashDayOpensEpisode ==
    DrawdownReturned =>
        /\ DOMAIN rOut.metrics = {"max_drawdown", "avg_drawdown", "max_drawdown_duration",
                                  "avg_drawdown_duration", "drawdown_frequency",
                                  "drawdown_count"}
        /\ \A k \in 1..Len(rReturns) : SingleCrash(rReturns, k) => CrashSeen(k)

\* a crash at day 2 of four, recovered on the last day
C16_Witness ==
    /\ DrawdownReturned
    /\ Len(rReturns) = 4
    /\ SingleCrash(rReturns, 2)
    /\ rOut.drawdown[4].num = 0
    /\ rOut.metrics.max_drawdown_duration = 2
    /\ rOut.starts = <<2>>


\* ------------------------------------------------ RebalancingEngine: pieces
\* min_trade_amount, in currency units
MinTradeAmount == 1000

\* transaction_cost, in thousandths
TransactionCost == 1

Abs(x) == IF x < 0 THEN 0 - x ELSE x

\* np.abs(current_weights - target_weights), weights in percent
WeightDeviation(cur, tgt) == [i \in DOMAIN cur |-> Abs(cur[i] - tgt[i])]

NeedsAtOrAbove(dev, th) == MaxOf(dev) >= th

\* max_deviation > threshold
NeedsRebalancing(dev, th) == MaxOf(dev) > th

SkipAtOrBelow(tradeValue) == Abs(tradeValue) <= MinTradeAmount

\* "if abs(trade_value) < self.min_trade_amount: continue"
SkipTrade(tradeValue) == Abs(tradeValue) < MinTradeAmount

\* one pass of the loop body for instrument i: weight change in percent,
\* portfolio value in hundreds, so the trade value is in currency units and
\* the cost (trade value x 0.001) in thousandths of a currency unit
TradeEntry(change, value) ==
    [weight_change |-> change,
     trade_value |-> change * value,
     trading_cost |-> Abs(change * value) * TransactionCost,
     action |-> IF change > 0 THEN "BUY" ELSE "SELL"]

\* the trades mapping without its summary: instrument -> entry
Trades(cur, tgt, value) ==
    LET kept == {i \in DOMAIN cur : ~SkipTrade((tgt[i] - cur[i]) * value)}
    IN  [i \in kept |-> TradeEntry(tgt[i] - cur[i], value)]

\* ------------------------------------------------- RebalancingEngine: steps
\* weights, in percent
WeightVals == {0, 5, 10, 15}

\* thresholds, in percent (0.05 is the default)
ThresholdVals == {0, 5, 10}

\* portfolio values, in hundreds of currency units
ValueVals == {0, 100, 200}

RebalanceFns == {"threshold_based_rebalancing", "generate_portfolio_rebalance_signal",
                 "calculate_rebalancing_trades"}

RebalanceInit ==
    /\ callFn \in RebalanceFns
    /\ cls = (IF callFn = "generate_portfolio_rebalance_signal"
              THEN "SignalGenerator" ELSE "RebalancingEngine")
    /\ backend = "scipy" /\ mu = <<>> /\ cov = FlatCov(0, 0)
    /\ callPc = "start"
    /\ \E n \in 1..MaxN : \E cur \in [1..n -> WeightVals] : \E tgt \in [1..n -> WeightVals] :
         \/ /\ callFn # "calculate_rebalancing_trades"
            /\ \E th \in ThresholdVals :
                 callArgs = [current_weights |-> cur, target_weights |-> tgt, threshold |-> th]
         \/ /\ callFn = "calculate_rebalancing_trades"
            /\ \E v \in ValueVals :
                 callArgs = [current_weights |-> cur, target_weights |-> tgt,
                             portfolio_value |-> v]
    /\ callOut = NoOut
    /\ SharpeIdle
    /\ FrontierIdle
    /\ AuxIdle
    /\ MultiIdle
    /\ SignalIdle
    /\ RiskIdle
    /\ CompareIdle

\* RebalancingEngine.threshold_based_rebalancing
ThresholdBasedRebalancing ==
    /\ callPc = "start" /\ callFn = "threshold_based_rebalancing"
    /\ LET dev == WeightDeviation(callArgs.current_weights, callArgs.target_weights)
       IN  callOut' = [needs_rebalancing |-> NeedsRebalancing(dev, callArgs.threshold),
                       weight_deviation |-> dev]
    /\ callPc' = "returned"
    /\ UNCHANGED <<auxVars, sharpeVars, frontierVars, multiVars, signalVars, riskVars, cmpVars, callFn, callArgs>>

\* SignalGenerator.generate_portfolio_rebalance_signal; signal_strength is
\* max_diff / threshold as a fraction
GeneratePortfolioRebalanceSignal ==
    /\ callPc = "start" /\ callFn = "generate_portfolio_rebalance_signal"
    /\ LET diff == [i \in DOMAIN callArgs.current_weights |->
                       callArgs.target_weights[i] - callArgs.current_weights[i]]
           dev == [i \in DOMAIN diff |-> Abs(diff[i])]
           th == callArgs.threshold
       IN  callOut' = [needs_rebalancing |-> NeedsRebalancing(dev, th),
                       signal_strength |->
                           IF th > 0 THEN Reduce([num |-> MaxOf(dev), den |-> th]) ELSE Zero,
                       max_deviation |-> MaxOf(dev),
                       weight_differences |-> diff,
                       absolute_differences |-> dev,
                       deviating_assets |-> {i \in DOMAIN dev : dev[i] > th}]
    /\ callPc' = "returned"
    /\ UNCHANGED <<auxVars, sharpeVars, frontierVars, multiVars, signalVars, riskVars, cmpVars, callFn, callArgs>>

\* RebalancingEngine.calculate_rebalancing_trades; the summary divides by
\* portfolio_value, which raises ZeroDivisionError for a value of zero
CalculateRebalancingTrades ==
    /\ callPc = "start" /\ callFn = "calculate_rebalancing_trades"
    /\ LET cur == callArgs.current_weights
           tgt == callArgs.target_weights
           v == callArgs.portfolio_value
           tr == Trades(cur, tgt, v)
           total == SumOver([i \in DOMAIN cur |-> IF i \in DOMAIN tr THEN tr[i].trading_cost ELSE 0],
                            DOMAIN cur)
       IN  IF v = 0
           THEN callPc' = "raised" /\ callOut' = NoOut
           ELSE /\ callPc' = "returned"
                /\ callOut' = [trades |-> tr,
                               summary |->
                                   [total_trading_cost |-> total,
                                    total_trading_cost_pct |->
                                        Reduce([num |-> total, den |-> v * 100000]),
                                    total_turnover |->
                                        Reduce([num |-> SumOver(WeightDeviation(cur, tgt), DOMAIN cur),
                                                den |-> 200])]]
    /\ UNCHANGED <<auxVars, sharpeVars, frontierVars, multiVars, signalVars, riskVars, cmpVars, callFn, callArgs>>

RebalanceNext ==
    ThresholdBasedRebalancing \/ GeneratePortfolioRebalanceSignal \/ CalculateRebalancingTrades

SpecRebalance == RebalanceInit /\ [][RebalanceNext]_vars

\* -------------------------------------------- claims: RebalancingEngine
ThresholdReturned ==
    /\ callFn \in {"threshold_based_rebalancing", "generate_portfolio_rebalance_signal"}
    /\ callPc = "returned"

Deviations ==
    IF callFn = "threshold_based_rebalancing"
    THEN callOut.weight_deviation ELSE callOut.absolute_differences

\* C17: needs_rebalancing is true exactly when the largest absolute
\* per-instrument difference between current and target weights is strictly
\* greater than the threshold (a largest deviation equal to the threshold
\* does not trigger), and the returned deviation vector is |current - target|
\* per instrument; the same holds for generate_portfolio_rebalance_signal.
C17_StrictThreshold ==
    ThresholdReturned =>
        LET cur == callArgs.current_weights
            tgt == callArgs.target_weights
        IN  /\ DOMAIN Deviations = DOMAIN cur
            /\ \A i \in DOMAIN cur :
                  /\ Deviations[i] >= 0
                  /\ Deviations[i] \in {cur[i] - tgt[i], tgt[i] - cur[i]}
            /\ callOut.needs_rebalancing
                  <=> (\E i \in DOMAIN cur : Deviations[i] > callArgs.threshold)
            /\ (\A i \in DOMAIN cur : Deviations[i] <= callArgs.threshold)
                  => ~callOut.needs_rebalancing

\* the largest deviation equals a positive threshold and nothing is triggered
C17_Witness ==
    /\ callFn = "threshold_based_rebalancing" /\ callPc = "returned"
    /\ callArgs.threshold > 0
    /\ \E i \in DOMAIN callOut.weight_deviation :
          callOut.weight_deviation[i] = callArgs.threshold
    /\ \A i \in DOMAIN callOut.weight_deviation :
          callOut.weight_deviation[i] <= callArgs.threshold
    /\ ~callOut.needs_rebalancing

TradesReturned == callFn = "calculate_rebalancing_trades" /\ callPc = "returned"

TradeValue(i) ==
    (callArgs.target_weights[i] - callArgs.current_weights[i]) * callArgs.portfolio_value

CostOfEntries ==
    SumOver([i \in DOMAIN callArgs.current_weights |->
                IF i \in DOMAIN callOut.trades THEN callOut.trades[i].trading_cost ELSE 0],
            DOMAIN callArgs.current_weights)

\* C18 (as stated): a trade entry exists only for instruments whose absolute
\* trade value exceeds the minimum trade amount; an instrument whose trade
\* value is at or below that floor gets no entry and adds nothing to
\* total_trading_cost.
C18_EntryOnlyAboveFloor ==
    TradesReturned =>
        /\ \A i \in DOMAIN callArgs.current_weights :
              i \in DOMAIN callOut.trades <=> Abs(TradeValue(i)) > MinTradeAmount
        /\ callOut.summary.total_trading_cost = CostOfEntries

\* C18 (amended): a trade entry (value, cost, BUY/SELL) exists exactly for
\* the instruments whose absolute trade value is at least the minimum trade
\* amount; an instrument strictly below the floor gets no entry, and
\* total_trading_cost is the sum of the costs of the entries.
C18_EntryFromFloor ==
    TradesReturned =>
        /\ \A i \in DOMAIN callArgs.current_weights :
              /\ i \in DOMAIN callOut.trades <=> Abs(TradeValue(i)) >= MinTradeAmount
              /\ i \in DOMAIN callOut.trades =>
                    /\ callOut.trades[i].trade_value = TradeValue(i)
                    /\ callOut.trades[i].trading_cost = Abs(TradeValue(i)) * TransactionCost
                    /\ callOut.trades[i].action = (IF TradeValue(i) > 0 THEN "BUY" ELSE "SELL")
        /\ callOut.summary.total_trading_cost = CostOfEntries

\* one instrument traded at exactly the floor, another skipped below it
C18_Witness ==
    /\ TradesReturned
    /\ \E i \in DOMAIN callArgs.current_weights :
          Abs(TradeValue(i)) = MinTradeAmount /\ i \in DOMAIN callOut.trades
    /\ \E i \in DOMAIN callArgs.current_weights :
          /\ 0 < Abs(TradeValue(i)) /\ Abs(TradeValue(i)) < MinTradeAmount
          /\ i \notin DOMAIN callOut.trades
    /\ callOut.summary.total_trading_cost = MinTradeAmount * TransactionCost


\* ------------------------------------- compare_optimization_methods: steps
\* the four try blocks, in order
MethodOrder == <<"max_sharpe", "stable_returns", "risk_parity", "hierarchical_risk_parity">>

\* the method each block calls
StrategyOf(name) ==
    CASE name = "max_sharpe" -> "risk_constraint"
      [] name = "stable_returns" -> "stable_returns"
      [] name = "risk_parity" -> "risk_parity"
      [] name = "hierarchical_risk_parity" -> "hierarchical_risk_parity"

MethodLabel(name) ==
    CASE name = "max_sharpe" -> "Maximum Sharpe Ratio"
      [] name = "stable_returns" -> "Stable Returns Optimization"
      [] name = "risk_parity" -> "Risk Parity"
      [] name = "hierarchical_risk_parity" -> "Hierarchical Risk Parity"

\* methods[name] = {...}
PutMethod(ms, name, entry) ==
    [k \in DOMAIN ms \cup {name} |-> IF k = name THEN entry ELSE ms[k]]

AttemptAlways(name, returns) == TRUE

\* "if returns is not None" guards the stable-returns block only
Attempted(name, returns) == name = "stable_returns" => returns # "none"

\* no returns table; a table; a table whose column deviations cannot be
\* computed, so that returns.std() raises
ReturnsArgs == {"none", "table", "unusable"}

\* symmetric tables of up to three instruments with unit variances and
\* covariances in {0, 1}
CompareCovInputs(n) == {c \in HrpCovInputs(n) : \A i \in 1..n : c.m[i][i] = 1}

CompareInit ==
    /\ cls = "MultiObjectiveOptimizer" /\ backend = "scipy"
    /\ \E n \in 1..3 :
         /\ mu = [i \in 1..n |-> RiskFree + 1]
         /\ cov \in CompareCovInputs(n)
    /\ cmpReturns \in ReturnsArgs
    /\ cmpPc = "call"
    /\ cmpIdx = 1
    /\ methods = NoMethods
    /\ attempted = <<>>
    /\ MultiIdle
    /\ SharpeIdle
    /\ FrontierIdle
    /\ AuxIdle
    /\ SignalIdle
    /\ RiskIdle
    /\ CallIdle

\* entering one of the four blocks: the block is passed over, the call
\* raises before its solver runs, or the method starts
CompareAttempt ==
    /\ cmpPc = "call"
    /\ cmpIdx <= Len(MethodOrder)
    /\ LET name == MethodOrder[cmpIdx]
       IN  IF ~Attempted(name, cmpReturns)
           THEN /\ cmpIdx' = cmpIdx + 1
                /\ UNCHANGED <<multiVars, cmpPc, attempted>>
           ELSE IF name = "stable_returns" /\ cmpReturns = "unusable"
           THEN \* return_stability = -returns.std().values, outside the try
                /\ attempted' = Append(attempted, [method |-> name, outcome |-> "raised"])
                /\ cmpIdx' = cmpIdx + 1
                /\ UNCHANGED <<multiVars, cmpPc>>
           ELSE /\ strategy' = StrategyOf(name)
                /\ mpc' = IF name = "hierarchical_risk_parity" THEN "cluster" ELSE "solve"
                /\ threshold' = [num |-> 1, den |-> 2]
                /\ clusters' = [i \in 1..Len(mu) |-> {i}]
                /\ ci' = 0
                /\ optimalWeights' = [i \in 1..Len(mu) |-> Zero]
                /\ solves' = <<>>
                /\ mResult' = NoMultiResult
                /\ cmpPc' = "wait"
                /\ UNCHANGED <<cmpIdx, attempted>>
    /\ UNCHANGED <<auxVars, sharpeVars, frontierVars, signalVars, riskVars, callVars, cmpReturns, methods>>

\* leaving a block: the result is stored, or the except clause logs
CompareCollect ==
    /\ cmpPc = "wait"
    /\ mpc \in {"returned", "raised"}
    /\ LET name == MethodOrder[cmpIdx]
       IN  /\ methods' = IF mpc = "returned"
                         THEN PutMethod(methods, name,
                                        [weights |-> mResult.weights,
                                         metrics |-> mResult.metrics,
                                         method |-> MethodLabel(name)])
                         ELSE methods
           /\ attempted' = Append(attempted, [method |-> name, outcome |-> mpc])
    /\ cmpIdx' = cmpIdx + 1
    /\ cmpPc' = "call"
    /\ strategy' = "none" /\ mpc' = "idle" /\ threshold' = Zero /\ clusters' = <<>>
    /\ ci' = 0 /\ optimalWeights' = <<>> /\ solves' = <<>> /\ mResult' = NoMultiResult
    /\ UNCHANGED <<auxVars, sharpeVars, frontierVars, signalVars, riskVars, callVars, cmpReturns>>

\* "return methods"
CompareReturn ==
    /\ cmpPc = "call"
    /\ cmpIdx = Len(MethodOrder) + 1
    /\ cmpPc' = "returned"
    /\ UNCHANGED <<auxVars, sharpeVars, frontierVars, multiVars, signalVars, riskVars, callVars,
                   cmpIdx, cmpReturns, methods, attempted>>

CompareNext ==
    \/ CompareAttempt
    \/ CompareCollect
    \/ CompareReturn
    \/ MultiNext

SpecCompare == CompareInit /\ [][CompareNext]_vars


\* ---------------------------------- claims: compare_optimization_methods
CompareReturned == cmpPc = "returned"

OutcomesOf(name) == {attempted[k].outcome : k \in {j \in 1..Len(attempted) : attempted[j].method = name}}

AllMethods == {MethodOrder[k] : k \in 1..Len(MethodOrder)}

\* C19: the methods run independently: a method that raised is left out of
\* the returned mapping, every method that returned is present with its
\* weights and metrics whatever the others did, the stable-returns method is
\* attempted only when a returns table was supplied, and a failed method
\* never ends the call: an exception of a method is met only inside a block,
\* where it is caught, and the later blocks are still entered.
C19_FailuresSkipped ==
    /\ CompareReturned =>
          /\ \A name \in AllMethods :
                /\ name \in DOMAIN methods <=> OutcomesOf(name) = {"returned"}
                /\ name \notin DOMAIN methods =>
                      OutcomesOf(name) \in {{"raised"}, {}}
                /\ name # "stable_returns" => OutcomesOf(name) # {}
                /\ name \in DOMAIN methods =>
                      /\ Len(methods[name].weights.num) = Len(mu)
                      /\ methods[name].metrics # NoMetrics
                      /\ methods[name].method = MethodLabel(name)
          /\ OutcomesOf("stable_returns") # {} <=> cmpReturns # "none"
          /\ Len(attempted) <= Len(MethodOrder)
    /\ cmpPc \in {"call", "wait", "returned"}
    /\ mpc = "raised" => cmpPc = "wait"

\* two methods raised, the other two are in the mapping
C19_Witness ==
    /\ CompareReturned
    /\ OutcomesOf("stable_returns") = {"raised"}
    /\ OutcomesOf("hierarchical_risk_parity") = {"raised"}
    /\ DOMAIN methods = {"max_sharpe", "risk_parity"}


\* ------------------------------------------ Sharpe ratio at zero volatility
\* PortfolioEvaluator._calculate_sharpe_ratio: return and volatility in
\* percent; the finite value is kept as excess and squared volatility
CalculateSharpeRatio(annualReturn, annualVolatility) ==
    IF annualVolatility = 0
    THEN IF annualReturn > RiskFree THEN [k |-> "pinf", e |-> 0, v |-> 0]
         ELSE [k |-> "ninf", e |-> 0, v |-> 0]
    ELSE [k |-> "fin", e |-> annualReturn - RiskFree, v |-> annualVolatility * annualVolatility]

RatioFns == {"_calculate_sharpe_ratio", "_solve_with_alternative_method",
             "_calculate_portfolio_metrics"}

\* symmetric tables with variances in 0..MaxVar and one covariance value
RatioCovInputs(n) ==
    {SquareCov(n, d, c, 0) : d \in [1..MaxN -> 0..MaxVar], c \in {0, 1}}

RatioInit ==
    /\ callFn \in RatioFns
    /\ cls = (IF callFn = "_calculate_sharpe_ratio" THEN "PortfolioEvaluator"
              ELSE IF callFn = "_solve_with_alternative_method" THEN "PortfolioOptimizer"
              ELSE "MultiObjectiveOptimizer")
    /\ backend = "scipy"
    /\ \/ /\ callFn = "_calculate_sharpe_ratio"
          /\ mu = <<>> /\ cov = FlatCov(0, 0)
          /\ \E r \in MuVals : \E vol \in 0..MaxVar :
               callArgs = [annual_return |-> r, annual_volatility |-> vol]
       \/ /\ callFn # "_calculate_sharpe_ratio"
          /\ mu \in MuInputs /\ Len(mu) > 0
          /\ cov \in RatioCovInputs(Len(mu))
          /\ \E w \in (IF callFn = "_solve_with_alternative_method"
                       THEN {EqualWeights(Len(mu))} ELSE GridWeights(Len(mu))) :
               callArgs = [weights |-> w]
    /\ callPc = "start"
    /\ callOut = NoOut
    /\ SharpeIdle
    /\ FrontierIdle
    /\ AuxIdle
    /\ MultiIdle
    /\ SignalIdle
    /\ RiskIdle
    /\ CompareIdle

\* PortfolioEvaluator._calculate_sharpe_ratio
EvaluatorSharpe ==
    /\ callPc = "start" /\ callFn = "_calculate_sharpe_ratio"
    /\ callOut' = [sharpe_ratio |->
                      CalculateSharpeRatio(callArgs.annual_return, callArgs.annual_volatility)]
    /\ callPc' = "returned"
    /\ UNCHANGED <<auxVars, sharpeVars, frontierVars, multiVars, signalVars, riskVars, cmpVars, callFn, callArgs>>

\* PortfolioOptimizer._solve_with_alternative_method: sharpe_equal
AlternativeSharpe ==
    /\ callPc = "start" /\ callFn = "_solve_with_alternative_method"
    /\ callOut' = [sharpe_ratio |-> SharpeOf(callArgs.weights, mu, cov)]
    /\ callPc' = "returned"
    /\ UNCHANGED <<auxVars, sharpeVars, frontierVars, multiVars, signalVars, riskVars, cmpVars, callFn, callArgs>>

\* MultiObjectiveOptimizer._calculate_portfolio_metrics
MetricsSharpe ==
    /\ callPc = "start" /\ callFn = "_calculate_portfolio_metrics"
    /\ callOut' = MetricsOf(callArgs.weights, mu, cov)
    /\ callPc' = "returned"
    /\ UNCHANGED <<auxVars, sharpeVars, frontierVars, multiVars, signalVars, riskVars, cmpVars, callFn, callArgs>>

RatioNext == EvaluatorSharpe \/ AlternativeSharpe \/ MetricsSharpe

SpecRatio == RatioInit /\ [][RatioNext]_vars

\* ------------------------------------- claims: zero-volatility Sharpe ratio
RatioReturned == callFn \in RatioFns /\ callPc = "returned"

ZeroVolatility ==
    IF callFn = "_calculate_sharpe_ratio" THEN callArgs.annual_volatility = 0
    ELSE QuadForm(callArgs.weights.num, cov.m, Len(mu)) = 0

ExcessReturn ==
    IF callFn = "_calculate_sharpe_ratio" THEN callArgs.annual_return - RiskFree
    ELSE Dot(callArgs.weights.num, mu) - RiskFree * callArgs.weights.den

\* C20: whenever a Sharpe ratio is computed for a portfolio with zero
\* volatility, by the evaluator and by the optimizers' metric and fallback
\* computations, it is +infinity for a positive excess return and -infinity
\* for a negative one, and it is never NaN.
C20_ZeroVolatilitySigned ==
    (RatioReturned /\ ZeroVolatility) =>
        /\ ExcessReturn > 0 => callOut.sharpe_ratio.k = "pinf"
        /\ ExcessReturn < 0 => callOut.sharpe_ratio.k = "ninf"
        /\ ~IsNaN(callOut.sharpe_ratio)


\* ------------------------------------------------- calculate_var: pieces
\* how many calculate_var calls and how many foreign draws are followed
MaxCalls == 2
MaxDraws == 2

\* returns.mean()
MeanOf(x) == Reduce([num |-> SumSeq(x), den |-> Len(x)])

\* returns.std() squared (ddof = 1), two or more observations
SampleVariance(x) ==
    LET n == Len(x)
        sq == SumTo([i \in 1..n |-> (n * x[i] - SumSeq(x)) * (n * x[i] - SumSeq(x))], n)
    IN  Reduce([num |-> sq, den |-> n * n * (n - 1)])

\* _parametric_var: mean + norm.ppf(1 - c) * std, kept as its parts
ParametricVar(x, c) == [k |-> "parametric", mean |-> MeanOf(x), variance |-> SampleVariance(x),
                        level |-> c]

\* _monte_carlo_var: the percentile of 10000 draws of np.random.normal(mean,
\* std) taken from the global generator in state g; with std = 0 every draw
\* is the mean
MonteCarloVar(x, c, g) ==
    IF SampleVariance(x).num = 0 THEN [k |-> "exact", value |-> MeanOf(x)]
    ELSE [k |-> "simulated", mean |-> MeanOf(x), variance |-> SampleVariance(x),
          level |-> c, draws |-> g]

VarMethods == {"historical", "parametric", "monte_carlo", "bootstrap"}

\* calculate_var: the dispatch on method
VarValue(a, g) ==
    CASE a.method = "historical" ->
            [k |-> "exact", value |-> Reduce(HistoricalVar(a.returns, a.confidence_level))]
      [] a.method = "parametric" -> ParametricVar(a.returns, a.confidence_level)
      [] a.method = "monte_carlo" -> MonteCarloVar(a.returns, a.confidence_level, g)
      [] OTHER -> [k |-> "ValueError"]

\* ------------------------------------------------- calculate_var: steps
VarArgs ==
    [returns : {<<0 - 1, 1>>, <<0, 0>>, <<0 - 1, 0>>},
     confidence_level : {[num |-> 95, den |-> 100], [num |-> 99, den |-> 100]},
     method : VarMethods]

MonteCarloInit ==
    /\ cls = "AdvancedRiskManager" /\ backend = "scipy"
    /\ mu = <<>> /\ cov = FlatCov(0, 0)
    /\ callFn = "calculate_var"
    /\ callPc = "start"
    /\ callArgs \in VarArgs
    /\ callOut = NoOut
    /\ rng = 0
    /\ history = <<>>
    /\ RunIdle
    /\ SharpeIdle
    /\ FrontierIdle
    /\ MultiIdle
    /\ SignalIdle
    /\ RiskIdle
    /\ CompareIdle

\* calculate_var(returns, confidence_level, method); the Monte Carlo method
\* consumes draws of the global generator
CalculateVar ==
    /\ callFn = "calculate_var" /\ callPc = "start"
    /\ callOut' = VarValue(callArgs, rng)
    /\ rng' = IF callArgs.method = "monte_carlo" THEN rng + 1 ELSE rng
    /\ history' = Append(history, [args |-> callArgs, value |-> VarValue(callArgs, rng)])
    /\ callPc' = IF callArgs.method \in {"historical", "parametric", "monte_carlo"}
                 THEN "returned" ELSE "raised"
    /\ UNCHANGED <<sharpeVars, frontierVars, multiVars, signalVars, riskVars, cmpVars,
                   callFn, callArgs, runVars>>

\* a draw from the global generator made elsewhere in the program
OtherDraw ==
    /\ callFn = "calculate_var"
    /\ rng < MaxCalls + MaxDraws
    /\ Len(history) + MaxDraws > rng
    /\ rng' = rng + 1
    /\ UNCHANGED <<sharpeVars, frontierVars, multiVars, signalVars, riskVars, cmpVars,
                   callVars, history, runVars>>

\* the caller calls calculate_var again
CallVarAgain ==
    /\ callFn = "calculate_var" /\ callPc \in {"returned", "raised"}
    /\ Len(history) < MaxCalls
    /\ callArgs' \in VarArgs
    /\ callPc' = "start"
    /\ callOut' = NoOut
    /\ UNCHANGED <<sharpeVars, frontierVars, multiVars, signalVars, riskVars, cmpVars,
                   callFn, rng, history, runVars>>

MonteCarloNext == CalculateVar \/ OtherDraw \/ CallVarAgain

SpecMonteCarlo == MonteCarloInit /\ [][MonteCarloNext]_vars

\* ------------------------------------------------ claims: calculate_var
\* C21: the Monte Carlo VaR is reproducible: two calls with identical
\* returns, confidence level (and seed, of which the signature has none)
\* return the same VaR, whatever other random draws happened in between.
C21_MonteCarloReproducible ==
    \A i \in 1..Len(history) : \A j \in 1..Len(history) :
        (history[i].args = history[j].args /\ history[i].args.method = "monte_carlo")
            => history[i].value = history[j].value


\* ------------------------------------------ claims: the analytic candidate
\* Sigma^-1 (mu - r_f 1) times |det Sigma|: the adjugate product with the
\* sign of the determinant
RawTangency ==
    LET n == Len(mu)
        a == MatVec(Adjugate(cov.m, n), [i \in 1..n |-> mu[i] - RiskFree], n)
    IN  [i \in 1..n |-> a[i] * Sign(Det(cov.m, n))]

ClippedRaw == [i \in 1..Len(mu) |-> IF RawTangency[i] < 0 THEN 0 ELSE RawTangency[i]]

\* C22: the analytic fallback candidate equals Sigma^-1 (mu - r_f 1) with its
\* negative entries set to zero and then rescaled to sum to 1, for every
\* invertible Sigma, also when the raw entries sum to a negative number: an
\* instrument with a negative raw weight receives weight zero.
C22_TangencyClippedRaw ==
    (candTangency.made /\ SumSeq(RawTangency) # 0) =>
        /\ ~candTangency.w.nan
        /\ \A i \in 1..Len(mu) : RawTangency[i] < 0 => candTangency.w.num[i] = 0
        /\ SumSeq(ClippedRaw) > 0 =>
              SameWeights(candTangency.w, Weights(ClippedRaw, SumSeq(ClippedRaw)))


\* ------------------------------------ claims: _build_hierarchical_clusters
Building == Hrp /\ mpc = "cluster"

Merged == Building /\ clusters' # clusters

\* some instrument of c1 and some instrument of c2 have a correlation
\* strictly greater than the threshold
PairAbove(c1, c2) == \E i \in c1 : \E j \in c2 : CorrGt(cov, i, j, threshold)

\* C23: two clusters are merged only when some pair of instruments, one from
\* each, has a correlation strictly greater than the threshold, for every
\* threshold value including zero and negative ones, and the loop stops only
\* when no two remaining clusters contain such a pair.
C23_MergeOnlyAboveThreshold ==
    [][/\ Merged =>
            \E a \in 1..Len(clusters) : \E b \in 1..Len(clusters) :
                /\ a < b
                /\ PairAbove(clusters[a], clusters[b])
                /\ clusters' = MergeClusters(clusters, a, b)
       /\ (Building /\ mpc' = "allocate") =>
            \A a \in 1..Len(clusters) : \A b \in 1..Len(clusters) :
                a < b => ~PairAbove(clusters[a], clusters[b])]_vars

\* the pairs the scan would merge, and the one that comes first in index order
Eligible == {p \in (1..Len(clusters)) \X (1..Len(clusters)) :
                p[1] < p[2] /\ ShouldMergeClusters(clusters[p[1]], clusters[p[2]], cov, threshold)}

\* the clusters _build_hierarchical_clusters ends with, from cl onwards
RECURSIVE FinalClusters(_)
FinalClusters(cl) ==
    LET E == {p \in (1..Len(cl)) \X (1..Len(cl)) :
                 p[1] < p[2] /\ ShouldMergeClusters(cl[p[1]], cl[p[2]], cov, threshold)}
    IN  IF E = {} THEN cl
        ELSE LET p == CHOOSE p \in E : \A q \in E : p[1] < q[1] \/ (p[1] = q[1] /\ p[2] <= q[2])
             IN  FinalClusters([k \in 1..(Len(cl) - 1) |->
                                   IF k = p[1] THEN cl[p[1]] \cup cl[p[2]]
                                   ELSE IF k < p[2] THEN cl[k] ELSE cl[k + 1]])

\* C24: at every merge step the eligible pair (i, j) that comes first in
\* index order is the one merged, cluster j being absorbed into cluster i and
\* the other clusters keeping their order; the scan restarts after each
\* merge, so the final clusters are a function of the table and threshold.
C24_FirstPairMerges ==
    [][/\ Merged =>
            \E p \in Eligible :
                /\ \A q \in Eligible : p[1] < q[1] \/ (p[1] = q[1] /\ p[2] <= q[2])
                /\ Len(clusters') = Len(clusters) - 1
                /\ clusters'[p[1]] = clusters[p[1]] \cup clusters[p[2]]
                /\ \A k \in 1..(Len(clusters) - 1) :
                      k # p[1] => clusters'[k] = (IF k < p[2] THEN clusters[k] ELSE clusters[k + 1])
                /\ mpc' = "cluster"
       /\ (Building /\ mpc' = "allocate") =>
            /\ Eligible = {}
            /\ clusters' = FinalClusters([i \in 1..Len(mu) |-> {i}])]_vars

\* three instruments, several pairs eligible at the start, the first pair
\* merged and the scan about to restart
C24_Witness ==
    /\ Hrp /\ mpc = "cluster"
    /\ Len(mu) = 3
    /\ Cardinality(MergeablePairs([i \in 1..3 |-> {i}], cov, threshold)) >= 2
    /\ threshold.num >= 0
    /\ clusters = <<{1, 2}, {3}>>

\* every cluster non-empty, clusters pairwise disjoint, every index in one
IsPartition(cl, n) ==
    /\ \A k \in 1..Len(cl) : cl[k] # {} /\ cl[k] \subseteq 1..n
    /\ \A k \in 1..Len(cl) : \A l \in 1..Len(cl) : k # l => cl[k] \cap cl[l] = {}
    /\ \A i \in 1..n : \E k \in 1..Len(cl) : i \in cl[k]

\* C25: _build_hierarchical_clusters terminates for every table and every
\* threshold; in every state of the loop the clusters are a partition of the
\* instrument indices, and each merge reduces the number of clusters by
\* exactly one.
C25_TerminatesWithPartition ==
    /\ [](Hrp => IsPartition(clusters, Len(mu)))
    /\ [][Merged => Len(clusters') = Len(clusters) - 1]_vars
    /\ (Building ~> (Hrp /\ mpc = "allocate"))

\* the loop has ended after at least one merge
C25_Witness ==
    /\ Hrp /\ mpc = "allocate"
    /\ Len(clusters) < Len(mu)
    /\ IsPartition(clusters, Len(mu))


\* the maximal runs of consecutive periods with negative drawdown, as
\* <<first, last>>
NegativeRuns ==
    LET dd == rOut.drawdown
        n == Len(dd)
    IN  {r \in (1..n) \X (1..n) :
            /\ r[1] <= r[2]
            /\ \A t \in r[1]..r[2] : dd[t].num < 0
            /\ (r[1] = 1 \/ dd[r[1] - 1].num >= 0)
            /\ (r[2] = n \/ dd[r[2] + 1].num >= 0)}

\* C26: one episode per maximal run of consecutive periods with negative
\* drawdown: it starts at the first period where the drawdown becomes
\* negative and ends where it is back to zero, a run still open at the end is
\* counted, drawdown_count is the number of runs, max_drawdown_duration the
\* length of the longest, and the durations add up to the number of periods
\* with negative drawdown.
C26_EpisodesAreRuns ==
    DrawdownReturned =>
        LET m == rOut.metrics
            neg == {t \in 1..Len(rOut.drawdown) : rOut.drawdown[t].num < 0}
        IN  /\ m.drawdown_count = Cardinality(NegativeRuns)
            /\ {rOut.starts[k] : k \in 1..Len(rOut.starts)} = {r[1] : r \in NegativeRuns}
            /\ Len(rOut.starts) = Cardinality(NegativeRuns)
            /\ \A r \in NegativeRuns : r[2] - r[1] + 1 <= m.max_drawdown_duration
            /\ (NegativeRuns # {}) =>
                  \E r \in NegativeRuns : r[2] - r[1] + 1 = m.max_drawdown_duration
            /\ (NegativeRuns = {}) => m.max_drawdown_duration = 0
            /\ m.avg_drawdown_duration.num * m.drawdown_count
                  = Cardinality(neg) * m.avg_drawdown_duration.den
            /\ m.drawdown_frequency.num * Len(rOut.drawdown)
                  = m.drawdown_count * m.drawdown_frequency.den

\* two episodes of different length, the second still open at the end
C26_Witness ==
    /\ DrawdownReturned
    /\ rOut.metrics.drawdown_count = 2
    /\ rOut.starts = <<2, 4>>
    /\ Len(rOut.drawdown) = 5
    /\ rOut.drawdown[5].num < 0
    /\ rOut.metrics.max_drawdown_duration = 2


\* --------------------------------------------- generate_risk_report: pieces
\* the three grades; the source writes them in Chinese
Grades == {"low", "medium", "high"}

Rank(g) == CASE g = "low" -> 1 [] g = "medium" -> 2 [] g = "high" -> 3

\* "if x > a: low; elif x > b: medium; else: high" on fractions
GradeAbove(x, a, b) ==
    IF FracLt(a, x) THEN "low" ELSE IF FracLt(b, x) THEN "medium" ELSE "high"

\* "if x < a: low; elif x < b: medium; else: high" on fractions
GradeBelow(x, a, b) ==
    IF FracLt(x, a) THEN "low" ELSE IF FracLt(x, b) THEN "medium" ELSE "high"

OverallOfSix(total) == IF total <= 4 THEN "low" ELSE IF total <= 6 THEN "medium" ELSE "high"

\* "if total_score <= 4 ... elif total_score <= 7 ... else"
OverallOf(total) == IF total <= 4 THEN "low" ELSE IF total <= 7 THEN "medium" ELSE "high"

Whole(k) == [num |-> k, den |-> 1]

\* _calculate_risk_rating on the three figures it reads: the 95% historical
\* VaR and the maximum drawdown in percent, and the Herfindahl index
RiskRating(var95, hhi, maxDd) ==
    LET v == GradeAbove(var95, Whole(0 - 2), Whole(0 - 5))
        c == GradeBelow(hhi, Whole(2000), Whole(3500))
        d == GradeAbove(maxDd, Whole(0 - 10), Whole(0 - 25))
    IN  [var_risk |-> v, concentration_risk |-> c, drawdown_risk |-> d,
         overall_risk |-> OverallOf(Rank(v) + Rank(c) + Rank(d))]

\* calculate_var_cvar_summary for one level: the four figures
VarCvarRow(x, c) ==
    LET var == HistoricalVar(x, c)
    IN  [var_historical |-> Reduce(var),
         cvar_historical |-> Reduce(HistoricalCvar(x, var)),
         var_parametric |-> ParametricVar(x, c),
         cvar_parametric |-> [k |-> "parametric_cvar", mean |-> MeanOf(x),
                              variance |-> SampleVariance(x), level |-> c]]

\* calculate_var_cvar_summary: level -> row, for the configured levels
VarCvarSummary(x, levels) ==
    [c \in {levels[k] : k \in 1..Len(levels)} |-> VarCvarRow(x, c)]

\* the sum of the k largest entries
TopWeights(w, k) ==
    LET srt == SortAsc(w)
        n == Len(w)
    IN  SumTo([i \in 1..n |-> IF i > n - k THEN srt[i] ELSE 0], n)

\* calculate_concentration_risk for weights num / den
ConcentrationRisk(w) ==
    LET sq == Dot(w.num, w.num)
    IN  [top_5_concentration |-> Reduce([num |-> TopWeights(w.num, 5), den |-> w.den]),
         top_3_concentration |-> Reduce([num |-> TopWeights(w.num, 3), den |-> w.den]),
         hhi |-> Reduce([num |-> sq * 10000, den |-> w.den * w.den]),
         effective_holdings |-> Reduce([num |-> w.den * w.den, den |-> sq]),
         max_single_weight |-> Reduce([num |-> MaxOf(w.num), den |-> w.den]),
         min_weight |->
             LET big == {i \in 1..Len(w.num) : w.num[i] * 1000 > w.den}
             IN  IF big = {} THEN Zero
                 ELSE Reduce([num |-> CHOOSE x \in {w.num[i] : i \in big} :
                                          \A i \in big : x <= w.num[i],
                              den |-> w.den])]

\* stress scenarios: name -> shock in percent
StressScenarios ==
    [market_crash |-> 0 - 30, moderate_decline |-> 0 - 15, flash_crash |-> 0 - 10,
     bear_market |-> 0 - 40]

\* stats.percentileofscore(returns, score), kind 'rank'
PercentileOfScore(x, score) ==
    LET left == Cardinality({i \in 1..Len(x) : x[i] < score})
        right == Cardinality({i \in 1..Len(x) : x[i] <= score})
    IN  Reduce([num |-> (left + right + (IF left < right THEN 1 ELSE 0)) * 50, den |-> Len(x)])

\* stress_test
StressTest(x) ==
    [nm \in DOMAIN StressScenarios |->
        [portfolio_return |-> StressScenarios[nm],
         historical_percentile |-> PercentileOfScore(x, StressScenarios[nm])]]

\* daily returns in percent from daily factors in halves
PercentReturns(f) == [t \in 1..Len(f) |-> 50 * (f[t] - 2)]

Level95 == [num |-> 95, den |-> 100]

HasLevelAlways(levels) == TRUE

\* risk_report['var_cvar_analysis'][0.95] exists
HasLevel95(levels) == \E k \in 1..Len(levels) : levels[k] = Level95

\* the report before its rating: steps 1, 2, 3 and 5
ReportSections(f, w, levels) ==
    [var_cvar_analysis |-> VarCvarSummary(PercentReturns(f), levels),
     concentration_risk |-> ConcentrationRisk(w),
     drawdown_risks |-> DrawdownRiskMetrics(CumulativeReturns(f)),
     stress_test |-> StressTest(PercentReturns(f))]

\* step 6 on a report that has the 95% row
RatingOf(rep) ==
    LET dd == rep.drawdown_risks.max_drawdown
    IN  RiskRating(rep.var_cvar_analysis[Level95].var_historical,
                   rep.concentration_risk.hhi,
                   [num |-> dd.num * 100, den |-> dd.den])

\* ----------------------------------------------- generate_risk_report: steps
\* figures around the thresholds of the rating, in percent
VarFigures == {Whole(k) : k \in {0 - 6, 0 - 5, 0 - 4, 0 - 2, 0 - 1}}
HhiFigures == {Whole(k) : k \in {1999, 2000, 3499, 3500, 10000}}
DrawdownFigures == {Whole(k) : k \in {0 - 26, 0 - 25, 0 - 24, 0 - 10, 0 - 9, 0}}

\* confidence_levels the manager is constructed with
LevelLists ==
    {<<Level95, [num |-> 99, den |-> 100]>>, <<Level95>>, <<[num |-> 99, den |-> 100]>>,
     <<[num |-> 90, den |-> 100], [num |-> 99, den |-> 100]>>}

ReportInit ==
    /\ cls = "AdvancedRiskManager" /\ backend = "scipy"
    /\ mu = <<>> /\ cov = FlatCov(0, 0)
    /\ \/ /\ callFn = "_calculate_risk_rating"
          /\ \E v \in VarFigures : \E h \in HhiFigures : \E d \in DrawdownFigures :
               callArgs = [var_95 |-> v, hhi |-> h, max_drawdown |-> d]
       \/ /\ callFn = "generate_risk_report"
          /\ \E levels \in LevelLists : \E n \in 1..MaxN : \E w \in GridWeights(n) :
             \E f \in [1..2 -> FactorVals] \cup [1..3 -> FactorVals] :
               callArgs = [confidence_levels |-> levels, portfolio_returns |-> f,
                           weights |-> w]
    /\ callPc = "start"
    /\ callOut = NoOut
    /\ SharpeIdle
    /\ FrontierIdle
    /\ AuxIdle
    /\ MultiIdle
    /\ SignalIdle
    /\ RiskIdle
    /\ CompareIdle

\* _calculate_risk_rating
CalculateRiskRating ==
    /\ callPc = "start" /\ callFn = "_calculate_risk_rating"
    /\ callOut' = RiskRating(callArgs.var_95, callArgs.hhi, callArgs.max_drawdown)
    /\ callPc' = "returned"
    /\ UNCHANGED <<auxVars, sharpeVars, frontierVars, multiVars, signalVars, riskVars, cmpVars,
                   callFn, callArgs>>

\* generate_risk_report: the rating raises KeyError without a 95% row
GenerateRiskReport ==
    /\ callPc = "start" /\ callFn = "generate_risk_report"
    /\ LET rep == ReportSections(callArgs.portfolio_returns, callArgs.weights,
                                 callArgs.confidence_levels)
       IN  IF HasLevel95(callArgs.confidence_levels)
           THEN /\ callOut' = [report |-> rep, risk_rating |-> RatingOf(rep)]
                /\ callPc' = "returned"
           ELSE /\ callOut' = NoOut
                /\ callPc' = "raised"
    /\ UNCHANGED <<auxVars, sharpeVars, frontierVars, multiVars, signalVars, riskVars, cmpVars,
                   callFn, callArgs>>

ReportNext == CalculateRiskRating \/ GenerateRiskReport

SpecReport == ReportInit /\ [][ReportNext]_vars


\* ------------------------------------------------------------- claim C27
RatingReturned == callFn = "_calculate_risk_rating" /\ callPc = "returned"

HighCount(r) ==
    Cardinality({k \in {"var_risk", "concentration_risk", "drawdown_risk"} : r[k] = "high"})

LowCount(r) ==
    Cardinality({k \in {"var_risk", "concentration_risk", "drawdown_risk"} : r[k] = "low"})

\* C27: the 95% historical VaR (above -2% low, above -5% medium, else high),
\* the Herfindahl index (below 2000 low, below 3500 medium, else high) and the
\* maximum drawdown (above -10% low, above -25% medium, else high) are ranked
\* 1/2/3 and summed; the overall rating is low up to 4, medium up to 7, high
\* above, so it is high only with at least two high sub-ratings and no low one
C27_RatingThresholds ==
    RatingReturned =>
        LET v == callArgs.var_95.num
            h == callArgs.hhi.num
            d == callArgs.max_drawdown.num
            r == callOut
            total == Rank(r.var_risk) + Rank(r.concentration_risk) + Rank(r.drawdown_risk)
        IN  /\ r.var_risk = (IF v > 0 - 2 THEN "low" ELSE IF v > 0 - 5 THEN "medium" ELSE "high")
            /\ r.concentration_risk =
                   (IF h < 2000 THEN "low" ELSE IF h < 3500 THEN "medium" ELSE "high")
            /\ r.drawdown_risk =
                   (IF d > 0 - 10 THEN "low" ELSE IF d > 0 - 25 THEN "medium" ELSE "high")
            /\ r.overall_risk = "low" <=> total <= 4
            /\ r.overall_risk = "medium" <=> (total > 4 /\ total <= 7)
            /\ r.overall_risk = "high" <=> total > 7
            /\ r.overall_risk = "high" <=> (HighCount(r) >= 2 /\ LowCount(r) = 0)

\* two high sub-ratings and a low one: total 7, overall medium
C27_Witness ==
    /\ RatingReturned
    /\ callArgs.var_95 = Whole(0 - 5) /\ callArgs.hhi = Whole(3500)
    /\ callArgs.max_drawdown = Whole(0 - 9)
    /\ callOut.var_risk = "high" /\ callOut.concentration_risk = "high"
    /\ callOut.drawdown_risk = "low" /\ callOut.overall_risk = "medium"


\* ------------------------------------------------------------- claim C29
ReportCalled == callFn = "generate_risk_report" /\ callPc # "start"

ReportKeys ==
    {"var_cvar_analysis", "concentration_risk", "drawdown_risks", "stress_test"}

\* C29: generate_risk_report returns a complete report (every section, one
\* VaR/CVaR row per configured level, and the rating) for every list of
\* confidence levels, lists without 0.95 included
C29_ReportForEveryLevels ==
    ReportCalled =>
        /\ callPc = "returned"
        /\ DOMAIN callOut = {"report", "risk_rating"}
        /\ DOMAIN callOut.report = ReportKeys
        /\ DOMAIN callOut.report.var_cvar_analysis =
               {callArgs.confidence_levels[k] : k \in 1..Len(callArgs.confidence_levels)}
        /\ callOut.risk_rating.overall_risk \in Grades

\* with 0.95 among the levels the report is complete
C29_CompleteWithLevel95 ==
    (ReportCalled /\ HasLevel95(callArgs.confidence_levels)) =>
        /\ callPc = "returned"
        /\ DOMAIN callOut = {"report", "risk_rating"}
        /\ DOMAIN callOut.report = ReportKeys
        /\ DOMAIN callOut.report.var_cvar_analysis =
               {callArgs.confidence_levels[k] : k \in 1..Len(callArgs.confidence_levels)}
        /\ callOut.risk_rating.overall_risk \in Grades

\* without 0.95 the call raises and no report comes back
C29_RaisesWithoutLevel95 ==
    (ReportCalled /\ ~HasLevel95(callArgs.confidence_levels)) =>
        (callPc = "raised" /\ callOut = NoOut)


\* ------------------------------------------------------------- claim C28
EnhancedSolved ==
    /\ cls = "EnhancedPortfolioOptimizer"
    /\ Len(sSolves) >= 1
    /\ ShapesAgree(sInputs)

\* C28: in _optimize_with_enhanced_inputs the primary attempt can succeed,
\* and the fallback chain is entered only when the solver reports failure:
\* on well-formed inputs the first solve ends in success or reported failure,
\* and a second solve follows only a reported failure
C28_FallbackOnlyOnReportedFailure ==
    EnhancedSolved =>
        /\ sSolves[1] \in {"ok", "fail"}
        /\ Len(sSolves) > 1 => sSolves[1] = "fail"

\* the primary attempt never succeeds: every first solve raises and the
\* risk-parity solve of the fallback follows
C28_PrimaryAlwaysRaises ==
    EnhancedSolved => (Len(sSolves) = 2 /\ sSolves[1] = "raise")


\* ------------------------------------------------------ run_analysis: steps
\* the fifteen steps of run_analysis, in the order of the try block
RunSteps ==
    <<"_fetch_data", "_process_data", "_optimize_portfolio",
      "_run_multi_objective_optimization", "_evaluate_portfolio", "_analyze_risks",
      "_analyze_rebalancing", "_analyze_enhanced_quant_signals",
      "_run_enhanced_optimization", "_analyze_investment_tools", "_analyze_correlations",
      "_generate_visualizations", "_save_results", "_generate_html_report",
      "_print_enhanced_final_report">>

\* def print_evaluation_report(self, metrics, optimal_weights, etf_codes):
\* positional parameters after self, none with a default
PrintEvaluationReportParams == 3

\* self.evaluator.print_evaluation_report(self.metrics, self.optimal_weights,
\*     self.config.etf_codes, self.etf_names): positional arguments passed
EvaluateCallArgs == 4

\* a call binds when it passes exactly the parameters the method declares;
\* otherwise Python raises TypeError before the body runs
CallBinds(given, params) == given = params

\* what a step that returns leaves on the object: the number of instruments
\* fetched, the weights of the Sharpe optimization, the methods compared
StepResults(k, d) ==
    CASE RunSteps[k] = "_fetch_data" -> {[d EXCEPT !.n = n] : n \in 1..MaxN}
      [] RunSteps[k] = "_optimize_portfolio" ->
             {[d EXCEPT !.optimal_weights = w] : w \in GridWeights(d.n)}
      [] RunSteps[k] = "_run_multi_objective_optimization" ->
             {[d EXCEPT !.methods = M] :
                 M \in SUBSET {MethodOrder[i] : i \in 1..Len(MethodOrder)}}
      [] OTHER -> {d}

\* "except Exception as e: ... sys.exit(1)"
ExitOnError ==
    /\ runState' = "exited"
    /\ exitStatus' = <<1>>
    /\ UNCHANGED <<runStep, runDone, runData>>

\* the step returned; after the last one the completion message is logged
StepReturned(d) ==
    /\ runDone' = Append(runDone, RunSteps[runStep])
    /\ runData' = d
    /\ runStep' = runStep + 1
    /\ runState' = IF runStep = Len(RunSteps) THEN "completed" ELSE "running"
    /\ UNCHANGED exitStatus

RunInit ==
    /\ cls = "EnhancedETFSharpeOptimizer" /\ backend = "scipy"
    /\ mu = <<>> /\ cov = FlatCov(0, 0)
    /\ runStep = 1 /\ runState = "running" /\ runDone = <<>> /\ exitStatus = <<>>
    /\ runData = NoRunData
    /\ rng = 0 /\ history = <<>>
    /\ SharpeIdle
    /\ FrontierIdle
    /\ MultiIdle
    /\ SignalIdle
    /\ RiskIdle
    /\ CallIdle
    /\ CompareIdle

\* any step but the evaluation: it returns with one of its results, or it
\* raises and run_analysis exits
RunStep ==
    /\ runState = "running"
    /\ runStep \in 1..Len(RunSteps)
    /\ RunSteps[runStep] # "_evaluate_portfolio"
    /\ \/ \E d \in StepResults(runStep, runData) : StepReturned(d)
       \/ ExitOnError
    /\ UNCHANGED <<sharpeVars, frontierVars, multiVars, signalVars, riskVars, callVars,
                   cmpVars, rng, history>>

\* _evaluate_portfolio: calculate_portfolio_metrics returns or raises, then
\* print_evaluation_report is called
EvaluatePortfolio ==
    /\ runState = "running"
    /\ runStep \in 1..Len(RunSteps)
    /\ RunSteps[runStep] = "_evaluate_portfolio"
    /\ \E metrics \in {"ok", "raise"} :
         IF metrics = "ok" /\ CallBinds(EvaluateCallArgs, PrintEvaluationReportParams)
         THEN StepReturned(runData)
         ELSE ExitOnError
    /\ UNCHANGED <<sharpeVars, frontierVars, multiVars, signalVars, riskVars, callVars,
                   cmpVars, rng, history>>

RunNext == RunStep \/ EvaluatePortfolio

SpecRun == RunInit /\ [][RunNext]_vars

\* ------------------------------------------------------------- claim C30
RunEnded == runState \in {"completed", "exited"}

FirstFourReturned ==
    /\ Len(runDone) >= 4
    /\ \A k \in 1..4 : runDone[k] = RunSteps[k]

\* C30: when fetching, processing, the Sharpe optimization and the
\* multi-objective comparison have returned, run_analysis does not exit with
\* an error status at the evaluation step
C30_NoExitAtEvaluation ==
    (FirstFourReturned /\ runState = "exited") => RunSteps[runStep] # "_evaluate_portfolio"

\* every run whose first four steps returned exits with status 1 at the
\* evaluation step; no run completes
C30_AlwaysExitsAtEvaluation ==
    /\ runState # "completed"
    /\ (FirstFourReturned /\ RunEnded) =>
          /\ runState = "exited" /\ exitStatus = <<1>>
          /\ RunSteps[runStep] = "_evaluate_portfolio"
          /\ Len(runDone) = 4

====
